---- MODULE Spec2Model ----
(***************************************************************************)
(* Model of the token constraint prober of cargoshipper-mcp                *)
(* (utils/token_inspector.py) and of the permission check                  *)
(* validate_token_permissions (utils/validation.py).                       *)
(*                                                                         *)
(* Python strings are sequences of one-character strings, so that          *)
(* str.lower, str.replace, the `in` substring test and f-string            *)
(* concatenation are computed character by character.                      *)
(***************************************************************************)
EXTENDS Integers, Sequences, FiniteSets, TLC

\* ------------------------------------------------------------------ strings

UpperLetters ==
  <<"A","B","C","D","E","F","G","H","I","J","K","L","M","N","O","P","Q","R","S","T","U","V","W","X","Y","Z">>
LowerLetters ==
  <<"a","b","c","d","e","f","g","h","i","j","k","l","m","n","o","p","q","r","s","t","u","v","w","x","y","z">>

\* str.lower() on one character
LowerChar(c) ==
  IF \E i \in 1..Len(UpperLetters) : UpperLetters[i] = c
    THEN LowerLetters[CHOOSE i \in 1..Len(UpperLetters) : UpperLetters[i] = c]
    ELSE c

\* str.lower()
lower(s) == [i \in 1..Len(s) |-> LowerChar(s[i])]

\* str.replace(old, new) for one-character old and new
replace(s, old, new) == [i \in 1..Len(s) |-> IF s[i] = old THEN new ELSE s[i]]

\* Python's `sub in s` on strings
contains(sub, s) ==
  \E k \in 0..(Len(s) - Len(sub)) : SubSeq(s, k + 1, k + Len(sub)) = sub

\* s.startswith(prefix)
startswith(s, prefix) ==
  Len(prefix) <= Len(s) /\ SubSeq(s, 1, Len(prefix)) = prefix

\* sep.join(list)
RECURSIVE join(_, _)
join(sep, list) ==
  IF list = <<>> THEN <<>>
  ELSE IF Len(list) = 1 THEN list[1]
  ELSE list[1] \o sep \o join(sep, Tail(list))

\* Python's None, kept apart from every string (the string "None" is <<"N","o","n","e">>)
None == <<"<None>">>

\* The string literals of token_inspector.py: the tags the probes and the aggregator
\* append, and the texts they look for
Tag ==
  [ docker_ping |->  \* 'docker.ping'
      <<"d","o","c","k","e","r",".","p","i","n","g">>,
    docker_info |->  \* 'docker.info'
      <<"d","o","c","k","e","r",".","i","n","f","o">>,
    docker_ping_failed |->  \* 'docker.ping_failed'
      <<"d","o","c","k","e","r",".","p","i","n","g","_","f","a","i","l","e","d">>,
    docker_containers_read |->  \* 'docker.containers.read'
      <<"d","o","c","k","e","r",".","c","o","n","t","a","i","n","e","r","s",".","r","e","a","d">>,
    docker_containers_read_denied |->  \* 'docker.containers.read_denied'
      <<"d","o","c","k","e","r",".","c","o","n","t","a","i","n","e","r","s",".","r","e","a","d","_","d","e","n","i","e","d">>,
    docker_images_read |->  \* 'docker.images.read'
      <<"d","o","c","k","e","r",".","i","m","a","g","e","s",".","r","e","a","d">>,
    docker_images_read_denied |->  \* 'docker.images.read_denied'
      <<"d","o","c","k","e","r",".","i","m","a","g","e","s",".","r","e","a","d","_","d","e","n","i","e","d">>,
    docker_containers_create |->  \* 'docker.containers.create'
      <<"d","o","c","k","e","r",".","c","o","n","t","a","i","n","e","r","s",".","c","r","e","a","t","e">>,
    docker_containers_create_denied |->  \* 'docker.containers.create_denied'
      <<"d","o","c","k","e","r",".","c","o","n","t","a","i","n","e","r","s",".","c","r","e","a","t","e","_","d","e","n","i","e","d">>,
    docker_unavailable |->  \* 'docker.unavailable: '
      <<"d","o","c","k","e","r",".","u","n","a","v","a","i","l","a","b","l","e",":"," ">>,
    account_read |->  \* 'account.read'
      <<"a","c","c","o","u","n","t",".","r","e","a","d">>,
    account_read_denied |->  \* 'account.read_denied: '
      <<"a","c","c","o","u","n","t",".","r","e","a","d","_","d","e","n","i","e","d",":"," ">>,
    droplets_read |->  \* 'droplets.read'
      <<"d","r","o","p","l","e","t","s",".","r","e","a","d">>,
    droplets_read_denied |->  \* 'droplets.read_denied: '
      <<"d","r","o","p","l","e","t","s",".","r","e","a","d","_","d","e","n","i","e","d",":"," ">>,
    domains_read |->  \* 'domains.read'
      <<"d","o","m","a","i","n","s",".","r","e","a","d">>,
    domains_read_denied |->  \* 'domains.read_denied: '
      <<"d","o","m","a","i","n","s",".","r","e","a","d","_","d","e","n","i","e","d",":"," ">>,
    droplets_write |->  \* 'droplets.write'
      <<"d","r","o","p","l","e","t","s",".","w","r","i","t","e">>,
    token_read_only |->  \* 'token.read_only'
      <<"t","o","k","e","n",".","r","e","a","d","_","o","n","l","y">>,
    droplets_write_denied |->  \* 'droplets.write_denied: '
      <<"d","r","o","p","l","e","t","s",".","w","r","i","t","e","_","d","e","n","i","e","d",":"," ">>,
    read_only_signal |->  \* 'read-only'
      <<"r","e","a","d","-","o","n","l","y">>,
    signal_403 |->  \* '403'
      <<"4","0","3">>,
    token_verified |->  \* 'token.verified'
      <<"t","o","k","e","n",".","v","e","r","i","f","i","e","d">>,
    token_active |->  \* 'token.active'
      <<"t","o","k","e","n",".","a","c","t","i","v","e">>,
    token_status |->  \* 'token.status: '
      <<"t","o","k","e","n",".","s","t","a","t","u","s",":"," ">>,
    token_verification_failed |->  \* 'token.verification_failed: '
      <<"t","o","k","e","n",".","v","e","r","i","f","i","c","a","t","i","o","n","_","f","a","i","l","e","d",":"," ">>,
    active |->  \* 'active'
      <<"a","c","t","i","v","e">>,
    plus0000 |->  \* '+00:00'
      <<"+","0","0",":","0","0">>,
    zones_read |->  \* 'zones.read'
      <<"z","o","n","e","s",".","r","e","a","d">>,
    zones_read_denied |->  \* 'zones.read_denied: '
      <<"z","o","n","e","s",".","r","e","a","d","_","d","e","n","i","e","d",":"," ">>,
    dns_read |->  \* 'dns.read'
      <<"d","n","s",".","r","e","a","d">>,
    accounts_read |->  \* 'accounts.read'
      <<"a","c","c","o","u","n","t","s",".","r","e","a","d">>,
    accounts_read_denied |->  \* 'accounts.read_denied: '
      <<"a","c","c","o","u","n","t","s",".","r","e","a","d","_","d","e","n","i","e","d",":"," ">>,
    detection_failed |->  \* 'detection_failed: '
      <<"d","e","t","e","c","t","i","o","n","_","f","a","i","l","e","d",":"," ">> ]

\* The string literals of write_operations (validation.py:91)
Verb ==
  [ create |->  \* 'create'
      <<"c","r","e","a","t","e">>,
    delete |->  \* 'delete'
      <<"d","e","l","e","t","e">>,
    update |->  \* 'update'
      <<"u","p","d","a","t","e">>,
    modify |->  \* 'modify'
      <<"m","o","d","i","f","y">>,
    start |->  \* 'start'
      <<"s","t","a","r","t">>,
    stop |->  \* 'stop'
      <<"s","t","o","p">>,
    restart |->  \* 'restart'
      <<"r","e","s","t","a","r","t">> ]

\* The literal pieces of the CargoShipperError messages of validate_token_permissions;
\* the symbol each message starts with is left out
Msg ==
  [ read_only_head |->  \* "READ-ONLY TOKEN: Cannot perform '"
      <<"R","E","A","D","-","O","N","L","Y"," ","T","O","K","E","N",":"," ","C","a","n","n","o","t"," ","p","e","r","f","o","r","m"," ","'">>,
    on |->  \* "' on "
      <<"'"," ","o","n"," ">>,
    read_only_tail |->  \* '. This token only allows read operations.'
      <<"."," ","T","h","i","s"," ","t","o","k","e","n"," ","o","n","l","y"," ","a","l","l","o","w","s"," ","r","e","a","d"," ","o","p","e","r","a","t","i","o","n","s",".">>,
    denied_head |->  \* "PERMISSION DENIED: Token cannot perform '"
      <<"P","E","R","M","I","S","S","I","O","N"," ","D","E","N","I","E","D",":"," ","T","o","k","e","n"," ","c","a","n","n","o","t"," ","p","e","r","f","o","r","m"," ","'">>,
    restriction |->  \* '. Restriction: '
      <<"."," ","R","e","s","t","r","i","c","t","i","o","n",":"," ">>,
    insufficient_head |->  \* "INSUFFICIENT PERMISSIONS: Token cannot perform '"
      <<"I","N","S","U","F","F","I","C","I","E","N","T"," ","P","E","R","M","I","S","S","I","O","N","S",":"," ","T","o","k","e","n"," ","c","a","n","n","o","t"," ","p","e","r","f","o","r","m"," ","'">>,
    available |->  \* '. Available permissions: '
      <<"."," ","A","v","a","i","l","a","b","l","e"," ","p","e","r","m","i","s","s","i","o","n","s",":"," ">>,
    comma |->  \* ', '
      <<","," ">> ]

\* The keys of the mapping get_all_token_constraints returns
ServiceKey ==
  [ docker |->  \* 'docker'
      <<"d","o","c","k","e","r">>,
    digitalocean |->  \* 'digitalocean'
      <<"d","i","g","i","t","a","l","o","c","e","a","n">>,
    cloudflare |->  \* 'cloudflare'
      <<"c","l","o","u","d","f","l","a","r","e">> ]

\* Texts of the backends' answers and errors, and the operation, permission and
\* restriction texts validate_token_permissions is called with
Text ==
  [ e403 |->  \* '403 Forbidden'
      <<"4","0","3"," ","F","o","r","b","i","d","d","e","n">>,
    down |->  \* 'down'
      <<"d","o","w","n">>,
    disabled |->  \* 'disabled'
      <<"d","i","s","a","b","l","e","d">>,
    expiry |->  \* '2030-01-01T00:00:00Z'
      <<"2","0","3","0","-","0","1","-","0","1","T","0","0",":","0","0",":","0","0","Z">>,
    expiry_bad |->  \* 'soon'
      <<"s","o","o","n">>,
    invalid_isoformat |->  \* 'Invalid isoformat string: '
      <<"I","n","v","a","l","i","d"," ","i","s","o","f","o","r","m","a","t"," ","s","t","r","i","n","g",":"," ">>,
    read_only |->  \* 'read_only'
      <<"r","e","a","d","_","o","n","l","y">>,
    delete_droplet |->  \* 'delete_droplet'
      <<"d","e","l","e","t","e","_","d","r","o","p","l","e","t">>,
    Delete_Droplet |->  \* 'Delete_Droplet'
      <<"D","e","l","e","t","e","_","D","r","o","p","l","e","t">>,
    droplets_read |->  \* 'droplets_read'
      <<"d","r","o","p","l","e","t","s","_","r","e","a","d">>,
    list |->  \* 'list'
      <<"l","i","s","t">>,
    perm_droplets_read |->  \* 'droplets.read'
      <<"d","r","o","p","l","e","t","s",".","r","e","a","d">>,
    restr_delete_droplet |->  \* 'delete_droplet: no'
      <<"d","e","l","e","t","e","_","d","r","o","p","l","e","t",":"," ","n","o">>,
    restr_Delete_Droplet |->  \* 'No Delete_Droplet'
      <<"N","o"," ","D","e","l","e","t","e","_","D","r","o","p","l","e","t">>,
    restr_list_denied |->  \* 'list_denied: 403'
      <<"l","i","s","t","_","d","e","n","i","e","d",":"," ","4","0","3">> ]

\* The decimal digits
Digits ==
  <<"0","1","2","3","4","5","6","7","8","9">>

\* ------------------------------------------------------------------ bounds

\* Zones a CloudFlare account may list; above ZoneSample so that the cap is met
MaxZones == 6
\* Longest permissions / restrictions list handed to validate_token_permissions
MaxList == 2
\* Tool runs followed
MaxRuns == 2
\* Longest name handed to the name validators
MaxName == 3
\* Most constructor invocations per client getter
MaxConstructs == 2
\* Most entries of the auths section of a Docker config
MaxAuths == 2

\* ------------------------------------------------------------------ state

VARIABLES
  clients,      \* services whose handle argument of get_all_token_constraints is truthy
  behaviour,    \* how each backend answers the calls of a probe
  errText,      \* str(e) of the errors the backends raise
  appendFails,  \* whether the list.append in the write checks' try bodies raises
  aggPc,        \* position of get_all_token_constraints
  tasks,        \* its `tasks` list: the service names, in order
  probePc,      \* per service: number of probe calls completed, or "idle" / "done"
  local,        \* per service: the `constraints` object its probe is building
  results,      \* per service: the result of its task in asyncio.gather
  constraints,  \* the `constraints` dict of get_all_token_constraints, in insertion order
  calls,        \* backend calls issued so far, as <<service, method>>
  finished,     \* the services whose task is done, in the order the tasks ended
  vcall,        \* arguments of the last validate_token_permissions call
  verdict,      \* its outcome
  toolRuns,     \* the tool runs so far: each with the calls it made, in order
  previous,     \* the mapping an earlier call of get_all_token_constraints returned
  fcall,        \* the last call of a pure function: its name, argument and result
  configured,   \* per service: whether the settings hold its credentials
  cached,       \* per service: the global client of server.py (_docker_client, ...)
  constructs,   \* per service: how often its client constructor was invoked
  got,          \* the last call of a client getter and its outcome
  resource      \* get_token_permissions: its position and what it returned

vars ==
  <<clients, behaviour, errText, appendFails, aggPc, tasks, probePc, local, results,
    constraints, calls, finished, vcall, verdict, toolRuns, previous, fcall,
    configured, cached, constructs, got, resource>>

proberVars ==
  <<clients, behaviour, errText, appendFails, aggPc, tasks, probePc, local, results,
    constraints, calls, finished>>

validateVars == <<vcall, verdict>>

toolVars == <<toolRuns>>

historyVars == <<previous>>

pureVars == <<fcall>>

serverVars == <<configured, cached, constructs, got, resource>>

Services == {"docker", "digitalocean", "cloudflare"}

\* ------------------------------------------------------------------ TokenConstraints

\* A dict is a sequence of <<key, value>> items in insertion order where its keys are
\* data (rate_limits), and a function of its keys where they are looked up
\* TokenConstraints.__init__
TokenConstraints ==
  [ permissions |-> <<>>,
    restrictions |-> <<>>,
    scopes |-> <<>>,
    rate_limits |-> <<>>,
    expires_at |-> None,
    read_only |-> FALSE,
    allowed_resources |-> <<>>,
    forbidden_resources |-> <<>>,
    account_level |-> None ]

\* A datetime, kept as its canonical ISO-8601 text
datetime(text) == <<"datetime", text>>

\* datetime.isoformat
isoformat(d) == d[2]

\* TokenConstraints.to_dict
to_dict(c) ==
  [ permissions |-> c.permissions,
    restrictions |-> c.restrictions,
    scopes |-> c.scopes,
    rate_limits |-> c.rate_limits,
    expires_at |-> IF c.expires_at # None THEN isoformat(c.expires_at) ELSE None,
    read_only |-> c.read_only,
    allowed_resources |-> c.allowed_resources,
    forbidden_resources |-> c.forbidden_resources,
    account_level |-> c.account_level ]

\* Outcomes of a backend call: it raises, or it returns a value
Returns(v) == [raise |-> FALSE, value |-> v]
Raises == [raise |-> TRUE, value |-> [ok |-> FALSE]]

\* hasattr(obj, name) on an answer kept as a record of its attributes
hasattr(obj, name) == name \in DOMAIN obj

\* ------------------------------------------------------------------ detect_docker_constraints

\* try: client.ping() ... except Exception
DockerPingCheck(c, out) ==
  IF ~out.raise
    THEN [c EXCEPT !.permissions = @ \o <<Tag.docker_ping, Tag.docker_info>>]
    ELSE [c EXCEPT !.restrictions = Append(@, Tag.docker_ping_failed)]

\* try: client.containers.list(limit=1) ... except Exception
DockerContainersCheck(c, out) ==
  IF ~out.raise
    THEN [c EXCEPT !.permissions = Append(@, Tag.docker_containers_read)]
    ELSE [c EXCEPT !.restrictions = Append(@, Tag.docker_containers_read_denied)]

\* try: client.images.list(limit=1) ... except Exception
DockerImagesCheck(c, out) ==
  IF ~out.raise
    THEN [c EXCEPT !.permissions = Append(@, Tag.docker_images_read)]
    ELSE [c EXCEPT !.restrictions = Append(@, Tag.docker_images_read_denied)]

\* try: constraints.permissions.append("docker.containers.create") ... except Exception;
\* `raised` says whether the statement of the try body raised
DockerWriteCheck(c, raised) ==
  IF ~raised
    THEN [c EXCEPT !.permissions = Append(@, Tag.docker_containers_create)]
    ELSE [c EXCEPT !.restrictions = Append(@, Tag.docker_containers_create_denied),
                   !.read_only = TRUE]

\* The body of detect_docker_constraints: env is the answer of the Docker environment
\* (docker.from_env() and the calls on the client it returns), text the str() of its errors
detect_docker_constraints(env, text, raised) ==
  IF env.from_env.raise
    THEN [TokenConstraints EXCEPT !.restrictions = Append(@, Tag.docker_unavailable \o text)]
    ELSE DockerWriteCheck(
           DockerImagesCheck(
             DockerContainersCheck(
               DockerPingCheck(TokenConstraints, env.ping),
               env.containers),
             env.images),
           raised)

\* DockerCalls gone wrong: the write check creates a container
DockerCallsCreating(env) ==
  IF env.from_env.raise
    THEN {<<"docker", "from_env">>}
    ELSE {<<"docker", "from_env">>, <<"docker", "ping">>,
          <<"docker", "containers.list(limit=1)">>, <<"docker", "images.list(limit=1)">>,
          <<"docker", "containers.create">>}

\* The calls detect_docker_constraints issues
DockerCalls(env) ==
  IF env.from_env.raise
    THEN {<<"docker", "from_env">>}
    ELSE {<<"docker", "from_env">>, <<"docker", "ping">>,
          <<"docker", "containers.list(limit=1)">>, <<"docker", "images.list(limit=1)">>}

\* ------------------------------------------------------------------ detect_digitalocean_constraints

\* try: account = client.account.get() ... except Exception as e
DOAccountCheck(c, out, text) ==
  IF ~out.raise
    THEN LET c1 == [c EXCEPT !.permissions = Append(@, Tag.account_read)]
         IN  IF hasattr(out.value, "status")
               THEN [c1 EXCEPT !.account_level = out.value.status]
               ELSE c1
    ELSE [c EXCEPT !.restrictions = Append(@, Tag.account_read_denied \o text)]

\* DODropletsCheck gone wrong: a failure of droplets.list is swallowed
DODropletsCheckSilent(c, out, text) ==
  IF ~out.raise
    THEN [c EXCEPT !.permissions = Append(@, Tag.droplets_read)]
    ELSE c

\* try: client.droplets.list(per_page=1) ... except Exception as e
DODropletsCheck(c, out, text) ==
  IF ~out.raise
    THEN [c EXCEPT !.permissions = Append(@, Tag.droplets_read)]
    ELSE [c EXCEPT !.restrictions = Append(@, Tag.droplets_read_denied \o text)]

\* try: client.domains.list(per_page=1) ... except Exception as e
DODomainsCheck(c, out, text) ==
  IF ~out.raise
    THEN [c EXCEPT !.permissions = Append(@, Tag.domains_read)]
    ELSE [c EXCEPT !.restrictions = Append(@, Tag.domains_read_denied \o text)]

\* DOWriteCheck gone wrong: a 403 among the restrictions of the read checks marks the
\* token read-only
DOWriteCheckInferring(c, raised, text) ==
  IF \E i \in 1..Len(c.restrictions) : contains(Tag.signal_403, c.restrictions[i])
    THEN [c EXCEPT !.read_only = TRUE,
                   !.restrictions = Append(@, Tag.token_read_only)]
    ELSE [c EXCEPT !.permissions = Append(@, Tag.droplets_write)]

\* try: constraints.permissions.append("droplets.write") ... except Exception as e;
\* `raised` says whether the statement of the try body raised, text is str(e)
DOWriteCheck(c, raised, text) ==
  IF ~raised
    THEN [c EXCEPT !.permissions = Append(@, Tag.droplets_write)]
    ELSE IF contains(Tag.read_only_signal, lower(text)) \/ contains(Tag.signal_403, text)
      THEN [c EXCEPT !.read_only = TRUE,
                     !.restrictions = Append(@, Tag.token_read_only)]
      ELSE [c EXCEPT !.restrictions = Append(@, Tag.droplets_write_denied \o text)]

\* constraints.rate_limits = {...} of detect_digitalocean_constraints
DORateLimits(c) ==
  [c EXCEPT !.rate_limits =
     << <<"requests_per_hour", 5000>>,
        <<"note", "Rate limits detected from API headers when available">> >>]

\* str() of the MemoryError a failing list.append raises
MemoryErrorText == <<>>

\* What follows the domains check, up to the return
DOFinish(c, raised) == DORateLimits(DOWriteCheck(c, raised, MemoryErrorText))

\* The body of detect_digitalocean_constraints against a handle answering as `h`
detect_digitalocean_constraints(h, text, raised) ==
  DOFinish(
    DODomainsCheck(
      DODropletsCheck(
        DOAccountCheck(TokenConstraints, h.account, text),
        h.droplets, text),
      h.domains, text),
    raised)

\* ------------------------------------------------------------------ detect_cloudflare_constraints

\* Zones of which allowed_resources keeps the names (zones.result[:5])
ZoneSample == 5

\* str.replace(old, new) for a one-character old and a string new
RECURSIVE replaceChar(_, _, _)
replaceChar(s, old, new) ==
  IF s = <<>> THEN <<>>
  ELSE (IF Head(s) = old THEN new ELSE <<Head(s)>>) \o replaceChar(Tail(s), old, new)

IsDigit(ch) == \E i \in 1..Len(Digits) : Digits[i] = ch

\* Whether datetime.fromisoformat accepts s: YYYY-MM-DDTHH:MM:SS, with or without
\* a +HH:MM / -HH:MM offset
IsIsoformat(s) ==
  /\ Len(s) \in {19, 25}
  /\ \A i \in {1, 2, 3, 4, 6, 7, 9, 10, 12, 13, 15, 16, 18, 19} : IsDigit(s[i])
  /\ s[5] = "-" /\ s[8] = "-" /\ s[11] = "T" /\ s[14] = ":" /\ s[17] = ":"
  /\ Len(s) = 25 =>
       /\ s[20] \in {"+", "-"}
       /\ \A i \in {21, 22, 24, 25} : IsDigit(s[i])
       /\ s[23] = ":"

\* datetime.fromisoformat: the datetime, or a ValueError with its text
fromisoformat(s) ==
  IF IsIsoformat(s)
    THEN [raise |-> FALSE, value |-> datetime(s), text |-> <<>>]
    ELSE [raise |-> TRUE, value |-> None,
          text |-> Text.invalid_isoformat \o <<"'">> \o s \o <<"'">>]

\* The token_info part of the verify check (inside `if hasattr(result, 'result')`);
\* a ValueError of fromisoformat is caught by the check's own except clause
CFTokenInfo(c, token_info) ==
  LET c1 == IF hasattr(token_info, "status")
              THEN IF token_info.status = Tag.active
                     THEN [c EXCEPT !.permissions = Append(@, Tag.token_active)]
                     ELSE [c EXCEPT !.restrictions =
                             Append(@, Tag.token_status \o token_info.status)]
              ELSE c
  IN  IF hasattr(token_info, "expires_on") /\ token_info.expires_on # <<>>
        THEN LET parsed == fromisoformat(replaceChar(token_info.expires_on, "Z", Tag.plus0000))
             IN  IF parsed.raise
                   THEN [c1 EXCEPT !.restrictions =
                           Append(@, Tag.token_verification_failed \o parsed.text)]
                   ELSE [c1 EXCEPT !.expires_at = parsed.value]
        ELSE c1

\* try: result = client.user.tokens.verify() ... except Exception as e
CFVerifyCheck(c, out, text) ==
  IF out.raise
    THEN [c EXCEPT !.restrictions = Append(@, Tag.token_verification_failed \o text)]
    ELSE IF hasattr(out.value, "success") /\ out.value.success
      THEN LET c1 == [c EXCEPT !.permissions = Append(@, Tag.token_verified)]
           IN  IF hasattr(out.value, "result")
                 THEN CFTokenInfo(c1, out.value.result)
                 ELSE c1
      ELSE c

\* [zone.name for zone in zones.result[:5]]
ZoneNames(zones) ==
  [i \in 1..(IF Len(zones) < ZoneSample THEN Len(zones) ELSE ZoneSample) |-> zones[i].name]

\* try: zones = client.zones.list(per_page=1) ... except Exception as e
CFZonesCheck(c, out, text) ==
  IF ~out.raise
    THEN LET c1 == [c EXCEPT !.permissions = Append(@, Tag.zones_read)]
         IN  IF hasattr(out.value, "result") /\ out.value.result # <<>>
               THEN [c1 EXCEPT !.allowed_resources = @ \o ZoneNames(out.value.result)]
               ELSE c1
    ELSE [c EXCEPT !.restrictions = Append(@, Tag.zones_read_denied \o text)]

\* try: if constraints.allowed_resources: permissions.append("dns.read") ... except
CFDnsCheck(c) ==
  IF c.allowed_resources # <<>>
    THEN [c EXCEPT !.permissions = Append(@, Tag.dns_read)]
    ELSE c

\* try: client.accounts.list(per_page=1) ... except Exception as e
CFAccountsCheck(c, out, text) ==
  IF ~out.raise
    THEN [c EXCEPT !.permissions = Append(@, Tag.accounts_read)]
    ELSE [c EXCEPT !.restrictions = Append(@, Tag.accounts_read_denied \o text)]

\* constraints.rate_limits = {...} of detect_cloudflare_constraints
CFRateLimits(c) ==
  [c EXCEPT !.rate_limits =
     << <<"global_limit", "1200/5min">>,
        <<"note", "CloudFlare uses complex rate limiting per endpoint">> >>]

\* The body of detect_cloudflare_constraints against a handle answering as `h`
detect_cloudflare_constraints(h, text) ==
  CFRateLimits(
    CFAccountsCheck(
      CFDnsCheck(
        CFZonesCheck(
          CFVerifyCheck(TokenConstraints, h.verify, text),
          h.zones, text)),
      h.accounts, text))

\* ------------------------------------------------------------------ backend behaviours

\* An answer none of whose attributes a probe reads
Ok == Returns([ok |-> TRUE])
Outcomes == {Ok, Raises}

\* str(e) of the errors the backends raise
ErrTexts == {Text.e403, Text.down}

\* The Docker environment: docker.from_env() fails, or it returns a client whose three
\* calls each succeed or raise; `crash`: the probe raises outside its own try
DockerEnv(f, p, c, i) ==
  [crash |-> FALSE, from_env |-> f, ping |-> p, containers |-> c, images |-> i]

DockerBehaviours ==
  {DockerEnv(Raises, Raises, Raises, Raises)}
    \cup {DockerEnv(Ok, p, c, i) : p \in Outcomes, c \in Outcomes, i \in Outcomes}
    \cup {[DockerEnv(Ok, Ok, Ok, Ok) EXCEPT !.crash = TRUE]}

\* Answers of client.account.get(): with or without a status attribute
AccountAnswers ==
  {Raises, Returns([status |-> Tag.active]), Returns([email |-> <<"a","@","b">>])}

DOHandle(a, d, m) == [crash |-> FALSE, account |-> a, droplets |-> d, domains |-> m]

DigitalOceanBehaviours ==
  {DOHandle(a, d, m) : a \in AccountAnswers, d \in Outcomes, m \in Outcomes}
    \cup {[DOHandle(Ok, Ok, Ok) EXCEPT !.crash = TRUE]}

\* Answers of client.user.tokens.verify()
VerifyAnswers ==
  {Raises,
   Returns([success |-> FALSE]),
   Returns([success |-> TRUE]),
   Returns([success |-> TRUE, result |-> [status |-> Tag.active]]),
   Returns([success |-> TRUE, result |-> [status |-> Text.disabled, expires_on |-> Text.expiry]]),
   Returns([success |-> TRUE, result |-> [status |-> Tag.active, expires_on |-> Text.expiry_bad]])}

Zone(i) == [name |-> <<"z", Digits[i + 1]>>]

\* Answers of client.zones.list(per_page=1): no zone, or MaxZones zones
ZonesAnswers ==
  {Raises, Returns([result |-> <<>>]), Returns([result |-> [i \in 1..MaxZones |-> Zone(i)]])}

CFHandle(v, z, a) == [crash |-> FALSE, verify |-> v, zones |-> z, accounts |-> a]

CloudflareBehaviours ==
  {CFHandle(v, z, a) : v \in VerifyAnswers, z \in ZonesAnswers, a \in Outcomes}
    \cup {[CFHandle(Ok, Ok, Ok) EXCEPT !.crash = TRUE]}

Behaviours(s) ==
  CASE s = "docker" -> DockerBehaviours
    [] s = "digitalocean" -> DigitalOceanBehaviours
    [] s = "cloudflare" -> CloudflareBehaviours

\* The behaviour recorded for a backend that is not probed
Unprobed(s) ==
  CASE s = "docker" -> DockerEnv(Ok, Ok, Ok, Ok)
    [] s = "digitalocean" -> DOHandle(Ok, Ok, Ok)
    [] s = "cloudflare" -> CFHandle(Ok, Ok, Ok)

\* ------------------------------------------------------------------ get_all_token_constraints

\* The result of a task: none yet, the record its probe returned, or the exception
\* its probe raised
Pending == [kind |-> "pending", value |-> TokenConstraints, text |-> <<>>]
Record(c) == [kind |-> "record", value |-> c, text |-> <<>>]
Exception(text) == [kind |-> "Exception", value |-> TokenConstraints, text |-> text]

\* asyncio.CancelledError: a BaseException that is not an Exception
CancelledError == [kind |-> "CancelledError", value |-> [args |-> <<>>], text |-> <<>>]

\* isinstance(result, Exception)
IsException(result) == result.kind = "Exception"

\* The order in which get_all_token_constraints tests its arguments
ServiceOrder == <<"docker", "digitalocean", "cloudflare">>

\* The position a launched probe waits at first
FirstPc(s) ==
  CASE s = "docker" -> "start"
    [] s = "digitalocean" -> "account"
    [] s = "cloudflare" -> "verify"

\* The call a launched probe issues first
FirstCall(s) ==
  CASE s = "docker" -> {}
    [] s = "digitalocean" -> {<<"digitalocean", "account.get">>}
    [] s = "cloudflare" -> {<<"cloudflare", "user.tokens.verify">>}

\* IsPresent gone wrong: a backend is probed whether or not its handle was passed
IsPresentAlways(s) == TRUE

\* `if docker_client:` and its likes: whether the handle of s is truthy
IsPresent(s) == s \in clients

\* No call has returned yet
NoPrevious == [done |-> FALSE, value |-> <<>>]

\* NewConstraints gone wrong: the lists of the record an earlier pass built are used again
NewConstraintsShared(s) ==
  IF \E i \in 1..Len(previous.value) : previous.value[i].key = s
    THEN previous.value[CHOOSE i \in 1..Len(previous.value) : previous.value[i].key = s].value
    ELSE TokenConstraints

\* constraints = TokenConstraints() at the head of a probe: a new object with new lists
NewConstraints(s) == TokenConstraints

\* tasks.append((name, detect_...())) for each truthy handle, then asyncio.gather starts
\* the tasks: each probe runs up to its first await
Launch ==
  /\ aggPc = "call"
  /\ tasks' = SelectSeq(ServiceOrder, IsPresent)
  /\ probePc' = [s \in Services |-> IF IsPresent(s) THEN FirstPc(s) ELSE "idle"]
  /\ calls' = calls \cup
       UNION {FirstCall(s) : s \in {t \in Services : IsPresent(t) /\ ~behaviour[t].crash}}
  /\ local' = [s \in Services |-> NewConstraints(s)]
  /\ aggPc' = "gather"
  /\ UNCHANGED <<clients, behaviour, errText, appendFails, results, constraints, finished>>
  /\ UNCHANGED validateVars
  /\ UNCHANGED toolVars
  /\ UNCHANGED historyVars
  /\ UNCHANGED pureVars
  /\ UNCHANGED serverVars

\* A probe raises outside its own try: its task ends with the exception
Crash(s) ==
  /\ behaviour[s].crash
  /\ probePc[s] = FirstPc(s)
  /\ probePc' = [probePc EXCEPT ![s] = "done"]
  /\ results' = [results EXCEPT ![s] = Exception(errText)]
  /\ finished' = Append(finished, s)
  /\ UNCHANGED <<clients, behaviour, errText, appendFails, aggPc, tasks, local,
                 constraints, calls>>
  /\ UNCHANGED validateVars
  /\ UNCHANGED toolVars
  /\ UNCHANGED historyVars
  /\ UNCHANGED pureVars
  /\ UNCHANGED serverVars

\* The probes that await: a Docker probe runs without suspending
Awaits(s) == s \in {"digitalocean", "cloudflare"}

\* A probe is cancelled at an await: CancelledError passes its `except Exception`
\* handlers, its task ends cancelled and asyncio.gather(return_exceptions=True)
\* puts a CancelledError in its place in the results
Cancel(s) ==
  /\ Awaits(s)
  /\ probePc[s] \notin {"idle", "done"}
  /\ probePc' = [probePc EXCEPT ![s] = "done"]
  /\ results' = [results EXCEPT ![s] = CancelledError]
  /\ finished' = Append(finished, s)
  /\ UNCHANGED <<clients, behaviour, errText, appendFails, aggPc, tasks, local,
                 constraints, calls>>
  /\ UNCHANGED validateVars
  /\ UNCHANGED toolVars
  /\ UNCHANGED historyVars
  /\ UNCHANGED pureVars
  /\ UNCHANGED serverVars

\* A probe returns its constraints object
Return(s, c) ==
  /\ probePc' = [probePc EXCEPT ![s] = "done"]
  /\ local' = [local EXCEPT ![s] = c]
  /\ results' = [results EXCEPT ![s] = Record(c)]
  /\ finished' = Append(finished, s)

\* Goto gone wrong: the probes build one shared constraints object
GotoShared(s, c, pc, call) ==
  /\ probePc' = [probePc EXCEPT ![s] = pc]
  /\ local' = [t \in Services |-> IF probePc[t] = "done" THEN local[t] ELSE c]
  /\ calls' = calls \cup {<<s, call>>}
  /\ UNCHANGED <<results, finished>>

\* A probe goes on to its next await, issuing `call`
Goto(s, c, pc, call) ==
  /\ probePc' = [probePc EXCEPT ![s] = pc]
  /\ local' = [local EXCEPT ![s] = c]
  /\ calls' = calls \cup {<<s, call>>}
  /\ UNCHANGED <<results, finished>>

\* detect_docker_constraints has no await: it runs from start to return in one step
DockerProbe ==
  /\ probePc["docker"] = "start"
  /\ ~behaviour["docker"].crash
  /\ Return("docker", detect_docker_constraints(behaviour["docker"], errText, appendFails))
  /\ calls' = calls \cup DockerCalls(behaviour["docker"])
  /\ UNCHANGED <<clients, behaviour, errText, appendFails, aggPc, tasks, constraints>>
  /\ UNCHANGED validateVars
  /\ UNCHANGED toolVars
  /\ UNCHANGED historyVars
  /\ UNCHANGED pureVars
  /\ UNCHANGED serverVars

\* client.account.get answers: the account check, then droplets.list is awaited
DOAccountStep ==
  /\ probePc["digitalocean"] = "account"
  /\ ~behaviour["digitalocean"].crash
  /\ Goto("digitalocean",
          DOAccountCheck(local["digitalocean"], behaviour["digitalocean"].account, errText),
          "droplets", "droplets.list(per_page=1)")
  /\ UNCHANGED <<clients, behaviour, errText, appendFails, aggPc, tasks, constraints>>
  /\ UNCHANGED validateVars
  /\ UNCHANGED toolVars
  /\ UNCHANGED historyVars
  /\ UNCHANGED pureVars
  /\ UNCHANGED serverVars

\* client.droplets.list answers: the droplets check, then domains.list is awaited
DODropletsStep ==
  /\ probePc["digitalocean"] = "droplets"
  /\ Goto("digitalocean",
          DODropletsCheck(local["digitalocean"], behaviour["digitalocean"].droplets, errText),
          "domains", "domains.list(per_page=1)")
  /\ UNCHANGED <<clients, behaviour, errText, appendFails, aggPc, tasks, constraints>>
  /\ UNCHANGED validateVars
  /\ UNCHANGED toolVars
  /\ UNCHANGED historyVars
  /\ UNCHANGED pureVars
  /\ UNCHANGED serverVars

\* client.domains.list answers: the domains check, the write check, the rate limits, return
DODomainsStep ==
  /\ probePc["digitalocean"] = "domains"
  /\ Return("digitalocean",
            DOFinish(
              DODomainsCheck(local["digitalocean"], behaviour["digitalocean"].domains, errText),
              appendFails))
  /\ UNCHANGED <<clients, behaviour, errText, appendFails, aggPc, tasks, constraints, calls>>
  /\ UNCHANGED validateVars
  /\ UNCHANGED toolVars
  /\ UNCHANGED historyVars
  /\ UNCHANGED pureVars
  /\ UNCHANGED serverVars

\* client.user.tokens.verify answers: the verify check, then zones.list is awaited
CFVerifyStep ==
  /\ probePc["cloudflare"] = "verify"
  /\ ~behaviour["cloudflare"].crash
  /\ Goto("cloudflare",
          CFVerifyCheck(local["cloudflare"], behaviour["cloudflare"].verify, errText),
          "zones", "zones.list(per_page=1)")
  /\ UNCHANGED <<clients, behaviour, errText, appendFails, aggPc, tasks, constraints>>
  /\ UNCHANGED validateVars
  /\ UNCHANGED toolVars
  /\ UNCHANGED historyVars
  /\ UNCHANGED pureVars
  /\ UNCHANGED serverVars

\* client.zones.list answers: the zones check and the DNS check, then accounts.list is awaited
CFZonesStep ==
  /\ probePc["cloudflare"] = "zones"
  /\ Goto("cloudflare",
          CFDnsCheck(CFZonesCheck(local["cloudflare"], behaviour["cloudflare"].zones, errText)),
          "accounts", "accounts.list(per_page=1)")
  /\ UNCHANGED <<clients, behaviour, errText, appendFails, aggPc, tasks, constraints>>
  /\ UNCHANGED validateVars
  /\ UNCHANGED toolVars
  /\ UNCHANGED historyVars
  /\ UNCHANGED pureVars
  /\ UNCHANGED serverVars

\* client.accounts.list answers: the accounts check, the rate limits, return
CFAccountsStep ==
  /\ probePc["cloudflare"] = "accounts"
  /\ Return("cloudflare",
            CFRateLimits(
              CFAccountsCheck(local["cloudflare"], behaviour["cloudflare"].accounts, errText)))
  /\ UNCHANGED <<clients, behaviour, errText, appendFails, aggPc, tasks, constraints, calls>>
  /\ UNCHANGED validateVars
  /\ UNCHANGED toolVars
  /\ UNCHANGED historyVars
  /\ UNCHANGED pureVars
  /\ UNCHANGED serverVars

\* ErrorConstraint gone wrong: the exception's text is left out of the restriction
ErrorConstraintNoText(result) ==
  [TokenConstraints EXCEPT !.restrictions = Append(@, Tag.detection_failed)]

\* error_constraint = TokenConstraints(); restrictions.append(f"detection_failed: {result}")
ErrorConstraint(result) ==
  [TokenConstraints EXCEPT !.restrictions = Append(@, Tag.detection_failed \o result.text)]

\* Collected gone wrong: the aggregator marks the records it collects
CollectedMarked(service_name, result) ==
  [key |-> service_name,
   value |-> IF IsException(result)
               THEN ErrorConstraint(result)
               ELSE [result.value EXCEPT !.scopes = Append(@, service_name)]]

\* The entry of the result for one task
Collected(service_name, result) ==
  [key |-> service_name,
   value |-> IF IsException(result) THEN ErrorConstraint(result) ELSE result.value]

\* GatherDone gone wrong: the wait ends as soon as one task is done
GatherDoneFirstCompleted ==
  \E i \in 1..Len(tasks) : probePc[tasks[i]] = "done"

\* await asyncio.gather(*tasks, return_exceptions=True) resumes once every task is done
GatherDone ==
  \A i \in 1..Len(tasks) : probePc[tasks[i]] = "done"

\* GatherResults gone wrong: the results come in the order the tasks ended
GatherResultsAsCompleted ==
  [i \in 1..Len(tasks) |-> results[finished[i]]]

\* The list asyncio.gather returns: the result of each awaitable, in the order of the
\* awaitables
GatherResults ==
  [i \in 1..Len(tasks) |-> results[tasks[i]]]

\* asyncio.gather returns once every task is done; the loop over tasks fills `constraints`
Collect ==
  /\ aggPc = "gather"
  /\ GatherDone
  /\ constraints' = [i \in 1..Len(tasks) |-> Collected(tasks[i], GatherResults[i])]
  /\ aggPc' = "returned"
  /\ UNCHANGED <<clients, behaviour, errText, appendFails, tasks, probePc, local,
                 results, calls, finished>>
  /\ UNCHANGED validateVars
  /\ UNCHANGED toolVars
  /\ UNCHANGED historyVars
  /\ UNCHANGED pureVars
  /\ UNCHANGED serverVars

\* get_all_token_constraints is called once more with the same handles: nothing of the
\* earlier call is left but the mapping it returned
CallAgain ==
  /\ aggPc = "returned"
  /\ ~previous.done
  /\ previous' = [done |-> TRUE, value |-> constraints]
  /\ aggPc' = "call"
  /\ tasks' = <<>>
  /\ probePc' = [s \in Services |-> "idle"]
  /\ results' = [s \in Services |-> Pending]
  /\ constraints' = <<>>
  /\ finished' = <<>>
  /\ UNCHANGED <<clients, behaviour, errText, appendFails, local, calls>>
  /\ UNCHANGED validateVars
  /\ UNCHANGED toolVars
  /\ UNCHANGED pureVars
  /\ UNCHANGED serverVars
\* ------------------------------------------------------------------ validate_token_permissions

\* dict.get(key, default)
get(d, key, default) == IF key \in DOMAIN d THEN d[key] ELSE default

\* write_operations gone wrong: 'delete' is missing from the list
write_operations_NoDelete ==
  <<Verb.create, Verb.update, Verb.modify, Verb.start, Verb.stop, Verb.restart>>

\* write_operations
write_operations ==
  <<Verb.create, Verb.delete, Verb.update, Verb.modify, Verb.start, Verb.stop, Verb.restart>>

\* any(op in operation.lower() for op in write_operations)
IsWriteOperation(operation) ==
  \E i \in 1..Len(write_operations) : contains(write_operations[i], lower(operation))

\* Outcomes of validate_token_permissions: it returns None, or raises CargoShipperError
Allowed == [raised |-> FALSE, message |-> <<>>]
CargoShipperError(message) == [raised |-> TRUE, message |-> message]

ReadOnlyMessage(service, operation) ==
  Msg.read_only_head \o operation \o Msg.on \o service \o Msg.read_only_tail

PermissionDeniedMessage(service, operation, restriction) ==
  Msg.denied_head \o operation \o Msg.on \o service \o Msg.restriction \o restriction

InsufficientMessage(service, operation, permissions) ==
  Msg.insufficient_head \o operation \o Msg.on \o service \o Msg.available
    \o join(Msg.comma, permissions)

\* FirstMatch gone wrong: the last matching restriction is cited
LastMatch(restrictions, operation_lower) ==
  IF \E i \in 1..Len(restrictions) : contains(operation_lower, lower(restrictions[i]))
    THEN CHOOSE i \in 1..Len(restrictions) :
           /\ contains(operation_lower, lower(restrictions[i]))
           /\ \A j \in (i + 1)..Len(restrictions) :
                ~contains(operation_lower, lower(restrictions[j]))
    ELSE 0

\* The first restriction the loop `for restriction in restrictions` raises for, or 0
FirstMatch(restrictions, operation_lower) ==
  IF \E i \in 1..Len(restrictions) : contains(operation_lower, lower(restrictions[i]))
    THEN CHOOSE i \in 1..Len(restrictions) :
           /\ contains(operation_lower, lower(restrictions[i]))
           /\ \A j \in 1..(i - 1) : ~contains(operation_lower, lower(restrictions[j]))
    ELSE 0

\* operation_allowed gone wrong: the dotted form of the operation is not tried
operation_allowed_NoDotted(permissions, operation) ==
  \E i \in 1..Len(permissions) : contains(lower(operation), lower(permissions[i]))

\* any(operation_lower in perm.lower() or operation.replace('_', '.').lower() in perm.lower()
\*     for perm in permissions)
operation_allowed(permissions, operation) ==
  \E i \in 1..Len(permissions) :
    \/ contains(lower(operation), lower(permissions[i]))
    \/ contains(lower(replace(operation, "_", ".")), lower(permissions[i]))

\* The checks of validate_token_permissions on the dict bound to the service
\* (validation.py:88-121), restrictions tested before read_only: a mutation
CheckConstraintRestrictionsFirst(service, operation, constraint) ==
  LET restrictions == get(constraint, "restrictions", <<>>)
      permissions == get(constraint, "permissions", <<>>)
      hit == FirstMatch(restrictions, lower(operation))
  IN  IF hit # 0
        THEN CargoShipperError(
               PermissionDeniedMessage(service, operation, restrictions[hit]))
      ELSE IF get(constraint, "read_only", FALSE) /\ IsWriteOperation(operation)
        THEN CargoShipperError(ReadOnlyMessage(service, operation))
      ELSE IF permissions # <<>> /\ ~operation_allowed(permissions, operation)
        THEN CargoShipperError(InsufficientMessage(service, operation, permissions))
      ELSE Allowed

\* The checks of validate_token_permissions on the dict bound to the service:
\* read_only, then restrictions, then permissions
CheckConstraint(service, operation, constraint) ==
  LET restrictions == get(constraint, "restrictions", <<>>)
      permissions == get(constraint, "permissions", <<>>)
      hit == FirstMatch(restrictions, lower(operation))
  IN  IF get(constraint, "read_only", FALSE) /\ IsWriteOperation(operation)
        THEN CargoShipperError(ReadOnlyMessage(service, operation))
      ELSE IF hit # 0
        THEN CargoShipperError(
               PermissionDeniedMessage(service, operation, restrictions[hit]))
      ELSE IF permissions # <<>> /\ ~operation_allowed(permissions, operation)
        THEN CargoShipperError(InsufficientMessage(service, operation, permissions))
      ELSE Allowed

\* validate_token_permissions gone wrong: a service without constraints is refused
validate_token_permissions_FailClosed(service, operation, cs) ==
  IF service \notin DOMAIN cs
    THEN CargoShipperError(InsufficientMessage(service, operation, <<>>))
    ELSE CheckConstraint(service, operation, cs[service])

\* validate_token_permissions(service, operation, constraints); `cs` is the constraints
\* dict, a function from service names to dicts
validate_token_permissions(service, operation, cs) ==
  IF service \notin DOMAIN cs
    THEN Allowed
    ELSE CheckConstraint(service, operation, cs[service])


\* ------------------------------------------------------------------ input validation

\* [a-zA-Z0-9]
IsAlnum(c) ==
  \/ \E i \in 1..Len(LowerLetters) : LowerLetters[i] = c \/ UpperLetters[i] = c
  \/ \E i \in 1..Len(Digits) : Digits[i] = c

\* re.match(r'^[a-zA-Z0-9][a-zA-Z0-9_.-]*$', name): `$` matches at the end of the string
\* and also just before a newline that ends it
MatchesContainerName(name) ==
  \E e \in {Len(name)} \cup {k \in {Len(name) - 1} : k >= 0 /\ name[Len(name)] = "\n"} :
    /\ e >= 1
    /\ IsAlnum(name[1])
    /\ \A i \in 2..e : IsAlnum(name[i]) \/ name[i] \in {"_", ".", "-"}

\* An exception of class cls whose str() is message; NoError: nothing was raised
Error(cls, message) == [raise |-> TRUE, cls |-> cls, message |-> message]
NoError == [raise |-> FALSE, cls |-> "", message |-> ""]

\* validate_container_name: returns True (NoError) or raises ValidationError
validate_container_name(name) ==
  IF name = <<>> \/ name = None
    THEN Error("ValidationError", "Container name must be a non-empty string")
    ELSE IF ~MatchesContainerName(name)
      THEN Error("ValidationError",
                 "Container name must match pattern: [a-zA-Z0-9][a-zA-Z0-9_.-]*")
      ELSE NoError

\* validate_image_name
validate_image_name(image) ==
  IF image = <<>> \/ image = None
    THEN Error("ValidationError", "Image name must be a non-empty string")
    ELSE NoError

\* validate_port, on integers
validate_port(port) ==
  IF ~(1 <= port /\ port <= 65535)
    THEN Error("ValidationError", "Port must be between 1 and 65535")
    ELSE NoError

\* str.upper()
upper(s) ==
  [i \in 1..Len(s) |->
     IF \E k \in 1..Len(LowerLetters) : LowerLetters[k] = s[i]
       THEN UpperLetters[CHOOSE k \in 1..Len(LowerLetters) : LowerLetters[k] = s[i]]
       ELSE s[i]]

\* validate_dns_record_type
validate_dns_record_type(record_type) ==
  IF record_type = <<>> \/ record_type = None
    THEN Error("ValidationError", "DNS record type must be a non-empty string")
    ELSE IF upper(record_type) \notin
              {<<"A">>, <<"A","A","A","A">>, <<"C","N","A","M","E">>, <<"M","X">>,
               <<"T","X","T">>, <<"S","R","V">>, <<"N","S">>, <<"P","T","R">>}
      THEN Error("ValidationError",
                 "Invalid DNS record type. Must be one of: A, AAAA, CNAME, MX, TXT, SRV, NS, PTR")
      ELSE NoError

\* ------------------------------------------------------------------ tools

\* Outcomes of the calls a tool makes, and the exceptions the Docker SDK raises
ToolOutcomes == {"returns", "raises"}
DockerOutcomes == {"returns", "NotFound", "DockerException", "Exception"}

\* datetime.utcnow().isoformat()
utcnow == "2026-01-01T00:00:00"

\* format_success_response
format_success_response(data, operation) ==
  [success |-> TRUE, operation |-> operation, timestamp |-> utcnow, data |-> data]

\* format_error_response gone wrong: the envelope of an error carries 'data' as well
format_error_responseWithData(error, operation) ==
  [success |-> FALSE, operation |-> operation, timestamp |-> utcnow, error |-> error,
   data |-> None]

\* format_error_response, called without details
format_error_response(error, operation) ==
  [success |-> FALSE, operation |-> operation, timestamp |-> utcnow, error |-> error]

\* format_error_response, called with a non-empty details dict
format_error_response_details(error, operation, details) ==
  [success |-> FALSE, operation |-> operation, timestamp |-> utcnow, error |-> error,
   details |-> details]

\* One run of a tool: what it called, in order, the class of the exception its try
\* body raised ("" if none), and the response it returned
ToolRun(tool, events, raised, response) ==
  [tool |-> tool, events |-> events, raised |-> raised, response |-> response]

\* The response of a Docker tool whose try body raised an exception of class cls
DockerErrorResponse(cls, operation) ==
  format_error_response(
    CASE cls = "NotFound" -> "Container c not found"
      [] cls = "DockerException" -> "Docker error: e"
      [] OTHER -> "Unexpected error: e",
    operation)

\* do_delete_droplet: get_client(), droplets.get in its own bare try, droplets.destroy
do_delete_droplet(get_client, lookup, destroy) ==
  IF get_client = "raises"
    THEN ToolRun("do_delete_droplet", <<"get_client">>, "Exception",
                 format_error_response("DigitalOcean API error: e", "delete_droplet"))
    ELSE IF destroy = "raises"
      THEN ToolRun("do_delete_droplet",
                   <<"get_client", "droplets.get", "droplets.destroy">>, "Exception",
                   format_error_response("DigitalOcean API error: e", "delete_droplet"))
      ELSE ToolRun("do_delete_droplet",
                   <<"get_client", "droplets.get", "droplets.destroy">>, "",
                   format_success_response(
                     [droplet_name |-> IF lookup = "raises" THEN "Unknown" ELSE "n",
                      status |-> "deleted"],
                     "delete_droplet"))

\* cf_delete_zone: get_client(), zones.get in its own bare try, zones.delete
cf_delete_zone(get_client, lookup, delete) ==
  IF get_client = "raises"
    THEN ToolRun("cf_delete_zone", <<"get_client">>, "Exception",
                 format_error_response("CloudFlare API error: e", "delete_zone"))
    ELSE IF delete = "raises"
      THEN ToolRun("cf_delete_zone", <<"get_client", "zones.get", "zones.delete">>,
                   "Exception",
                   format_error_response("CloudFlare API error: e", "delete_zone"))
      ELSE ToolRun("cf_delete_zone", <<"get_client", "zones.get", "zones.delete">>, "",
                   format_success_response(
                     [zone_name |-> IF lookup = "raises" THEN "Unknown" ELSE "n",
                      status |-> "deleted"],
                     "delete_zone"))

\* docker_remove_container: get_client(), containers.get, container.remove
docker_remove_container(get_client, lookup, remove) ==
  IF get_client # "returns"
    THEN ToolRun("docker_remove_container", <<"get_client">>, get_client,
                 DockerErrorResponse(get_client, "remove_container"))
    ELSE IF lookup # "returns"
      THEN ToolRun("docker_remove_container", <<"get_client", "containers.get">>, lookup,
                   DockerErrorResponse(lookup, "remove_container"))
      ELSE IF remove # "returns"
        THEN ToolRun("docker_remove_container",
                     <<"get_client", "containers.get", "container.remove">>, remove,
                     DockerErrorResponse(remove, "remove_container"))
        ELSE ToolRun("docker_remove_container",
                     <<"get_client", "containers.get", "container.remove">>, "",
                     format_success_response([status |-> "removed"], "remove_container"))

\* docker_stop_container: get_client(), containers.get, container.stop
docker_stop_container(get_client, lookup, stop) ==
  IF get_client # "returns"
    THEN ToolRun("docker_stop_container", <<"get_client">>, get_client,
                 DockerErrorResponse(get_client, "stop_container"))
    ELSE IF lookup # "returns"
      THEN ToolRun("docker_stop_container", <<"get_client", "containers.get">>, lookup,
                   DockerErrorResponse(lookup, "stop_container"))
      ELSE IF stop # "returns"
        THEN ToolRun("docker_stop_container",
                     <<"get_client", "containers.get", "container.stop">>, stop,
                     DockerErrorResponse(stop, "stop_container"))
        ELSE ToolRun("docker_stop_container",
                     <<"get_client", "containers.get", "container.stop">>, "",
                     format_success_response([status |-> "stopped"], "stop_container"))

\* docker_start_container: get_client(), containers.get, container.start; NotFound is
\* answered with details
docker_start_container(get_client, lookup, start) ==
  LET events ==
        IF get_client # "returns" THEN <<"get_client">>
        ELSE IF lookup # "returns" THEN <<"get_client", "containers.get">>
        ELSE <<"get_client", "containers.get", "container.start">>
      raised ==
        IF get_client # "returns" THEN get_client
        ELSE IF lookup # "returns" THEN lookup
        ELSE IF start # "returns" THEN start
        ELSE ""
  IN  ToolRun("docker_start_container", events, raised,
        CASE raised = "" ->
               format_success_response([status |-> "running"], "start_container")
          [] raised = "NotFound" ->
               format_error_response_details(
                 "Container 'c' not found. This may occur if the container was created with remove=true and has been auto-removed after stopping",
                 "start_container",
                 [container_not_found |-> TRUE, container_id |-> "c"])
          [] OTHER -> DockerErrorResponse(raised, "start_container"))

\* docker_list_containers gone wrong: the list is fetched twice
docker_list_containersTwice(get_client, list) ==
  IF get_client # "returns"
    THEN ToolRun("docker_list_containers", <<"get_client">>, get_client,
                 DockerErrorResponse(get_client, "list_containers"))
    ELSE IF list # "returns"
      THEN ToolRun("docker_list_containers", <<"get_client", "containers.list">>, list,
                   DockerErrorResponse(list, "list_containers"))
      ELSE ToolRun("docker_list_containers",
                   <<"get_client", "containers.list", "containers.list">>, "",
                   format_success_response([total |-> 0], "list_containers"))

\* docker_list_containers: get_client(), containers.list
docker_list_containers(get_client, list) ==
  IF get_client # "returns"
    THEN ToolRun("docker_list_containers", <<"get_client">>, get_client,
                 DockerErrorResponse(get_client, "list_containers"))
    ELSE IF list # "returns"
      THEN ToolRun("docker_list_containers", <<"get_client", "containers.list">>, list,
                   DockerErrorResponse(list, "list_containers"))
      ELSE ToolRun("docker_list_containers", <<"get_client", "containers.list">>, "",
                   format_success_response([total |-> 0], "list_containers"))

\* docker_run_container: get_client(), validate_image_name, validate_container_name if a
\* name is given, validate_port for each host port of `ports` (here its host ports, in
\* order), containers.run
docker_run_container(get_client, image, name, ports, run) ==
  LET named == name # None /\ name # <<>>
      checks ==
        <<validate_image_name(image)>>
          \o (IF named THEN <<validate_container_name(name)>> ELSE <<>>)
          \o [i \in 1..Len(ports) |-> validate_port(ports[i])]
      names ==
        <<"validate_image_name">>
          \o (IF named THEN <<"validate_container_name">> ELSE <<>>)
          \o [i \in 1..Len(ports) |-> "validate_port"]
      failed == {i \in 1..Len(checks) : checks[i].raise}
      first == CHOOSE i \in failed : \A j \in failed : i <= j
  IN  IF get_client # "returns"
        THEN ToolRun("docker_run_container", <<"get_client">>, get_client,
                     DockerErrorResponse(get_client, "run_container"))
        ELSE IF failed # {}
          THEN ToolRun("docker_run_container",
                       <<"get_client">> \o SubSeq(names, 1, first), "ValidationError",
                       format_error_response(checks[first].message, "run_container"))
          ELSE IF run # "returns"
            THEN ToolRun("docker_run_container",
                         <<"get_client">> \o names \o <<"containers.run">>, run,
                         DockerErrorResponse(run, "run_container"))
            ELSE ToolRun("docker_run_container",
                         <<"get_client">> \o names \o <<"containers.run">>, "",
                         format_success_response([image |-> image], "run_container"))

\* validate_required_fields: the fields that are None are missing
validate_required_fields(data, required) ==
  IF \E i \in 1..Len(required) : data[required[i]] = None
    THEN Error("ValidationError", "Missing required fields")
    ELSE NoError

\* do_create_droplet: get_client(), validate_required_fields, droplets.create
do_create_droplet(get_client, name, create) ==
  LET check == validate_required_fields(
                 [name |-> name, region |-> <<"r">>, size |-> <<"s">>, image |-> <<"i">>],
                 <<"name", "region", "size", "image">>)
  IN  IF get_client = "raises"
        THEN ToolRun("do_create_droplet", <<"get_client">>, "Exception",
                     format_error_response("DigitalOcean API error: e", "create_droplet"))
        ELSE IF check.raise
          THEN ToolRun("do_create_droplet", <<"get_client", "validate_required_fields">>,
                       "ValidationError",
                       format_error_response(check.message, "create_droplet"))
          ELSE IF create = "raises"
            THEN ToolRun("do_create_droplet",
                         <<"get_client", "validate_required_fields", "droplets.create">>,
                         "Exception",
                         format_error_response("DigitalOcean API error: e", "create_droplet"))
            ELSE ToolRun("do_create_droplet",
                         <<"get_client", "validate_required_fields", "droplets.create">>,
                         "",
                         format_success_response([droplet |-> name], "create_droplet"))

\* cf_create_dns_record: get_client(), validate_dns_record_type, validate_required_fields,
\* the TTL check, the priority check for MX records (priority is <<>> for None),
\* dns.records.create
cf_create_dns_record(get_client, record_type, ttl, priority, create) ==
  LET check == validate_dns_record_type(record_type)
      badTtl == ttl # 1 /\ (ttl < 120 \/ ttl > 7200)
      noPriority == upper(record_type) = <<"M","X">> /\ priority = <<>>
      validated == <<"get_client", "validate_dns_record_type", "validate_required_fields">>
      Invalid(events, message) ==
        ToolRun("cf_create_dns_record", events, "ValidationError",
                format_error_response(message, "create_dns_record"))
  IN  IF get_client = "raises"
        THEN ToolRun("cf_create_dns_record", <<"get_client">>, "Exception",
                     format_error_response("CloudFlare API error: e", "create_dns_record"))
        ELSE IF check.raise
          THEN Invalid(<<"get_client", "validate_dns_record_type">>, check.message)
          ELSE IF badTtl
            THEN Invalid(validated, "TTL must be 1 (Auto) or between 120-7200 seconds")
            ELSE IF noPriority
              THEN Invalid(validated, "Priority is required for MX records")
              ELSE IF create = "raises"
                THEN ToolRun("cf_create_dns_record",
                             validated \o <<"dns.records.create">>, "Exception",
                             format_error_response("CloudFlare API error: e",
                                                   "create_dns_record"))
                ELSE ToolRun("cf_create_dns_record",
                             validated \o <<"dns.records.create">>, "",
                             format_success_response([record |-> upper(record_type)],
                                                     "create_dns_record"))

\* cf_update_dns_record: get_client(), dns.records.get, validate_dns_record_type if a
\* record type is given, dns.records.update
cf_update_dns_record(get_client, lookup, record_type, update) ==
  LET typed == record_type # None /\ record_type # <<>>
      check == IF typed THEN validate_dns_record_type(record_type) ELSE NoError
      looked == <<"get_client", "dns.records.get">>
      validated == looked \o (IF typed THEN <<"validate_dns_record_type">> ELSE <<>>)
      Failed(events) ==
        ToolRun("cf_update_dns_record", events, "Exception",
                format_error_response("CloudFlare API error: e", "update_dns_record"))
  IN  IF get_client = "raises"
        THEN Failed(<<"get_client">>)
        ELSE IF lookup = "raises"
          THEN Failed(looked)
          ELSE IF check.raise
            THEN ToolRun("cf_update_dns_record", validated, "ValidationError",
                         format_error_response(check.message, "update_dns_record"))
            ELSE IF update = "raises"
              THEN Failed(validated \o <<"dns.records.update">>)
              ELSE ToolRun("cf_update_dns_record",
                           validated \o <<"dns.records.update">>, "",
                           format_success_response([record |-> record_type],
                                                   "update_dns_record"))

\* Arguments the tools are called with
ImageNames == {<<>>, <<"n">>}
ContainerNames == {None, <<"c">>, <<"-">>}
HostPorts == {<<>>, <<80>>, <<80, 0>>}
RecordTypes == {None, <<"a">>, <<"M","X">>, <<"Q">>}
Ttls == {1, 60}
Priorities == {<<>>, <<10>>}

\* A client calls do_delete_droplet
DoDeleteDroplet ==
  /\ Len(toolRuns) < MaxRuns
  /\ \E g \in ToolOutcomes, r \in ToolOutcomes, d \in ToolOutcomes :
       toolRuns' = Append(toolRuns, do_delete_droplet(g, r, d))
  /\ UNCHANGED proberVars
  /\ UNCHANGED validateVars
  /\ UNCHANGED historyVars
  /\ UNCHANGED pureVars
  /\ UNCHANGED serverVars

\* A client calls cf_delete_zone
CfDeleteZone ==
  /\ Len(toolRuns) < MaxRuns
  /\ \E g \in ToolOutcomes, r \in ToolOutcomes, d \in ToolOutcomes :
       toolRuns' = Append(toolRuns, cf_delete_zone(g, r, d))
  /\ UNCHANGED proberVars
  /\ UNCHANGED validateVars
  /\ UNCHANGED historyVars
  /\ UNCHANGED pureVars
  /\ UNCHANGED serverVars

\* A client calls docker_remove_container
DockerRemoveContainer ==
  /\ Len(toolRuns) < MaxRuns
  /\ \E g \in DockerOutcomes, r \in DockerOutcomes, d \in DockerOutcomes :
       toolRuns' = Append(toolRuns, docker_remove_container(g, r, d))
  /\ UNCHANGED proberVars
  /\ UNCHANGED validateVars
  /\ UNCHANGED historyVars
  /\ UNCHANGED pureVars
  /\ UNCHANGED serverVars

\* A client calls docker_stop_container
DockerStopContainer ==
  /\ Len(toolRuns) < MaxRuns
  /\ \E g \in DockerOutcomes, r \in DockerOutcomes, d \in DockerOutcomes :
       toolRuns' = Append(toolRuns, docker_stop_container(g, r, d))
  /\ UNCHANGED proberVars
  /\ UNCHANGED validateVars
  /\ UNCHANGED historyVars
  /\ UNCHANGED pureVars
  /\ UNCHANGED serverVars

\* A client calls docker_start_container
DockerStartContainer ==
  /\ Len(toolRuns) < MaxRuns
  /\ \E g \in DockerOutcomes, r \in DockerOutcomes, d \in DockerOutcomes :
       toolRuns' = Append(toolRuns, docker_start_container(g, r, d))
  /\ UNCHANGED proberVars
  /\ UNCHANGED validateVars
  /\ UNCHANGED historyVars
  /\ UNCHANGED pureVars
  /\ UNCHANGED serverVars

\* A client calls docker_list_containers
DockerListContainers ==
  /\ Len(toolRuns) < MaxRuns
  /\ \E g \in DockerOutcomes, r \in DockerOutcomes :
       toolRuns' = Append(toolRuns, docker_list_containers(g, r))
  /\ UNCHANGED proberVars
  /\ UNCHANGED validateVars
  /\ UNCHANGED historyVars
  /\ UNCHANGED pureVars
  /\ UNCHANGED serverVars

\* A client calls docker_run_container
DockerRunContainer ==
  /\ Len(toolRuns) < MaxRuns
  /\ \E g \in DockerOutcomes, i \in ImageNames, n \in ContainerNames, p \in HostPorts,
        r \in DockerOutcomes :
       toolRuns' = Append(toolRuns, docker_run_container(g, i, n, p, r))
  /\ UNCHANGED proberVars
  /\ UNCHANGED validateVars
  /\ UNCHANGED historyVars
  /\ UNCHANGED pureVars
  /\ UNCHANGED serverVars

\* A client calls do_create_droplet
DoCreateDroplet ==
  /\ Len(toolRuns) < MaxRuns
  /\ \E g \in ToolOutcomes, n \in ImageNames \cup {None}, c \in ToolOutcomes :
       toolRuns' = Append(toolRuns, do_create_droplet(g, n, c))
  /\ UNCHANGED proberVars
  /\ UNCHANGED validateVars
  /\ UNCHANGED historyVars
  /\ UNCHANGED pureVars
  /\ UNCHANGED serverVars

\* A client calls cf_create_dns_record
CfCreateDnsRecord ==
  /\ Len(toolRuns) < MaxRuns
  /\ \E g \in ToolOutcomes, t \in RecordTypes, l \in Ttls, p \in Priorities,
        c \in ToolOutcomes :
       toolRuns' = Append(toolRuns, cf_create_dns_record(g, t, l, p, c))
  /\ UNCHANGED proberVars
  /\ UNCHANGED validateVars
  /\ UNCHANGED historyVars
  /\ UNCHANGED pureVars
  /\ UNCHANGED serverVars

\* A client calls cf_update_dns_record
CfUpdateDnsRecord ==
  /\ Len(toolRuns) < MaxRuns
  /\ \E g \in ToolOutcomes, r \in ToolOutcomes, t \in RecordTypes, u \in ToolOutcomes :
       toolRuns' = Append(toolRuns, cf_update_dns_record(g, r, t, u))
  /\ UNCHANGED proberVars
  /\ UNCHANGED validateVars
  /\ UNCHANGED historyVars
  /\ UNCHANGED pureVars
  /\ UNCHANGED serverVars
\* ------------------------------------------------------------------ calls of the name validators

\* The characters names are drawn from, and the names of at most MaxName of them
NameChars == {"a", "Z", "7", "_", ".", "-", "\n", " "}
Names == {None} \cup UNION {[1..k -> NameChars] : k \in 0..MaxName}

\* No pure function was called yet
NoFcall == [fn |-> "", arg |-> <<>>, result |-> NoError]

\* validate_container_name is called
ValidateContainerName ==
  /\ fcall.fn = ""
  /\ \E name \in Names :
       fcall' = [fn |-> "validate_container_name", arg |-> name,
                 result |-> validate_container_name(name)]
  /\ UNCHANGED proberVars
  /\ UNCHANGED validateVars
  /\ UNCHANGED toolVars
  /\ UNCHANGED historyVars
  /\ UNCHANGED serverVars

\* validate_image_name is called
ValidateImageName ==
  /\ fcall.fn = ""
  /\ \E image \in Names :
       fcall' = [fn |-> "validate_image_name", arg |-> image,
                 result |-> validate_image_name(image)]
  /\ UNCHANGED proberVars
  /\ UNCHANGED validateVars
  /\ UNCHANGED toolVars
  /\ UNCHANGED historyVars
  /\ UNCHANGED serverVars

\* ------------------------------------------------------------------ server.py: the client getters

\* The value of _docker_client and its likes: None, or the n-th client constructed for s
NoClient == [made |-> FALSE, service |-> "", serial |-> 0]
NewClient(s, n) == [made |-> TRUE, service |-> s, serial |-> n]

\* settings.has_docker_config is True whatever the settings hold; the others are
\* bool() of the credentials
has_config(s) == s = "docker" \/ configured[s]

\* What a getter raises: `if not settings.has_..._config`, and `except Exception as e`
NotConfiguredMessage(s) ==
  IF s = "digitalocean"
    THEN <<"DigitalOcean token not configured">>
    ELSE <<"CloudFlare credentials not configured">>

ConstructionMessage(s) ==
  CASE s = "docker" -> <<"Docker not available: ", "e">>
    [] s = "digitalocean" -> <<"DigitalOcean client error: ", "e">>
    [] s = "cloudflare" -> <<"CloudFlare client error: ", "e">>

\* The outcome of a getter: the new value of the global, whether the constructor was
\* invoked, the exception raised and the value returned
Got(cache, invoked, error, value) ==
  [cache |-> cache, invoked |-> invoked, error |-> error, value |-> value]

NoFailure == [raise |-> FALSE, cls |-> "", message |-> <<>>]
Failure(cls, message) == [raise |-> TRUE, cls |-> cls, message |-> message]

\* get_client gone wrong: the constructor is invoked whether or not a client is cached
get_clientUncached(s, cache, has, constructor) ==
  IF s # "docker" /\ ~has
    THEN Got(cache, FALSE, Failure("CargoShipperError", NotConfiguredMessage(s)), NoClient)
    ELSE IF constructor = "raises"
      THEN Got(cache, TRUE, Failure("CargoShipperError", ConstructionMessage(s)), NoClient)
      ELSE Got(NewClient(s, constructs[s] + 1), TRUE, NoFailure,
               NewClient(s, constructs[s] + 1))

\* get_docker_client, get_digitalocean_client and get_cloudflare_client: `cache` is the
\* global, `has` the configuration test (not made for Docker), `constructor` what the
\* client constructor does when it is invoked
get_client(s, cache, has, constructor) ==
  IF cache # NoClient
    THEN Got(cache, FALSE, NoFailure, cache)
    ELSE IF s # "docker" /\ ~has
      THEN Got(cache, FALSE, Failure("CargoShipperError", NotConfiguredMessage(s)), NoClient)
      ELSE IF constructor = "raises"
        THEN Got(cache, TRUE, Failure("CargoShipperError", ConstructionMessage(s)), NoClient)
        ELSE Got(NewClient(s, constructs[s] + 1), TRUE, NoFailure,
                 NewClient(s, constructs[s] + 1))

\* No getter was called yet
NoGot == [service |-> "", before |-> NoClient, result |-> Got(NoClient, FALSE, NoFailure, NoClient)]

\* A getter is called
GetClient(s) ==
  /\ cached[s] # NoClient \/ constructs[s] < MaxConstructs
  /\ \E constructor \in ToolOutcomes :
       LET r == get_client(s, cached[s], has_config(s), constructor)
       IN  /\ cached' = [cached EXCEPT ![s] = r.cache]
           /\ constructs' = [constructs EXCEPT ![s] = @ + (IF r.invoked THEN 1 ELSE 0)]
           /\ got' = [service |-> s, before |-> cached[s], result |-> r]
  /\ UNCHANGED <<configured, resource>>
  /\ UNCHANGED proberVars
  /\ UNCHANGED validateVars
  /\ UNCHANGED toolVars
  /\ UNCHANGED historyVars
  /\ UNCHANGED pureVars

\* ------------------------------------------------------------------ server.py: get_token_permissions

\* str.title() of a service name
title(service) ==
  CASE service = "docker" -> "Docker"
    [] service = "digitalocean" -> "Digitalocean"
    [] service = "cloudflare" -> "Cloudflare"

\* The section of one service: its heading and the lines its truthy fields add
Section(service, constraint) ==
  [service |-> service,
   heading |-> <<"## ", title(service), " API\n">>,
   lines |->
     (IF constraint.permissions # <<>> THEN <<"Permissions">> ELSE <<>>)
       \o (IF constraint.restrictions # <<>> THEN <<"Restrictions">> ELSE <<>>)
       \o (IF constraint.read_only THEN <<"READ-ONLY TOKEN">> ELSE <<>>)
       \o (IF constraint.allowed_resources # <<>> THEN <<"Allowed Resources">> ELSE <<>>)
       \o (IF Len(constraint.allowed_resources) > 5 THEN <<"more">> ELSE <<>>)
       \o (IF constraint.rate_limits # <<>> THEN <<"Rate Limits">> ELSE <<>>)
       \o (IF constraint.expires_at # None THEN <<"Expires">> ELSE <<>>),
   of |-> constraint]

\* What get_token_permissions returns: the text before the sections and the sections
Idle == [pc |-> "idle", text |-> <<>>, sections |-> <<>>]
Detecting == [pc |-> "detecting", text |-> <<>>, sections |-> <<>>]
\* (the message opens with the character U+274C, a cross mark, and a space)
Failed(e) ==
  [pc |-> "returned", text |-> <<"<U+274C> ", "Token permission detection failed: ">> \o e,
   sections |-> <<>>]
Formatted(sections) ==
  [pc |-> "returned", text |-> <<"# Token Permissions and Constraints\n\n">>,
   sections |-> sections]

\* GettersCalled gone wrong: a getter that raises does not end the resource
GettersCalledAll(ctor) == SelectSeq(ServiceOrder, has_config)

\* The getters get_token_permissions calls, in its order, up to the first that raises
GettersCalled(ctor) ==
  LET wanted == SelectSeq(ServiceOrder, has_config)
      raises(s) == get_client(s, cached[s], has_config(s), ctor[s]).error.raise
      failing == {i \in 1..Len(wanted) : raises(wanted[i])}
  IN  IF failing = {} THEN wanted
      ELSE SubSeq(wanted, 1, CHOOSE i \in failing : \A j \in failing : i <= j)

\* get_token_permissions up to its await: the getters of the configured backends, then
\* the call of get_all_token_constraints, or the message of the getter that raised
ResourceStart ==
  /\ resource = Idle
  /\ aggPc = "idle"
  /\ \E ctor \in [Services -> ToolOutcomes] :
       LET called == GettersCalled(ctor)
           r(s) == get_client(s, cached[s], has_config(s), ctor[s])
           last == called[Len(called)]
           was(s) == \E i \in 1..Len(called) : called[i] = s
       IN  /\ cached' = [s \in Services |-> IF was(s) THEN r(s).cache ELSE cached[s]]
           /\ constructs' = [s \in Services |->
                               constructs[s] + (IF was(s) /\ r(s).invoked THEN 1 ELSE 0)]
           /\ got' = [service |-> last, before |-> cached[last], result |-> r(last)]
           /\ IF r(last).error.raise
                THEN /\ resource' = Failed(r(last).error.message)
                     /\ UNCHANGED <<clients, aggPc>>
                ELSE /\ resource' = Detecting
                     /\ clients' = {s \in Services : has_config(s)}
                     /\ aggPc' = "call"
  /\ UNCHANGED <<behaviour, errText, appendFails, tasks, probePc, local, results,
                 constraints, calls, finished, configured>>
  /\ UNCHANGED validateVars
  /\ UNCHANGED toolVars
  /\ UNCHANGED historyVars
  /\ UNCHANGED pureVars

\* get_token_permissions after its await: one section per item of the mapping; a value
\* without the attribute `permissions` raises AttributeError inside the try
ResourceFinish ==
  /\ resource = Detecting
  /\ aggPc = "returned"
  /\ resource' =
       IF \E i \in 1..Len(constraints) : ~hasattr(constraints[i].value, "permissions")
         THEN Failed(<<"object has no attribute 'permissions'">>)
         ELSE Formatted([i \in 1..Len(constraints) |->
                           Section(constraints[i].key, constraints[i].value)])
  /\ UNCHANGED <<configured, cached, constructs, got>>
  /\ UNCHANGED proberVars
  /\ UNCHANGED validateVars
  /\ UNCHANGED toolVars
  /\ UNCHANGED historyVars
  /\ UNCHANGED pureVars

\* ------------------------------------------------------------------ docker_auth.py

\* Registry names
GhcrIo == <<"g","h","c","r",".","i","o">>  \* 'ghcr.io'
DockerIo == <<"d","o","c","k","e","r",".","i","o">>  \* 'docker.io'
HubUrl ==  \* 'https://index.docker.io/v1/'
  <<"h","t","t","p","s",":","/","/","i","n","d","e","x",".","d","o","c","k","e","r",".","i","o","/","v","1","/">>
HubHost ==  \* 'index.docker.io'
  <<"i","n","d","e","x",".","d","o","c","k","e","r",".","i","o">>
HubRegistry ==  \* 'registry-1.docker.io'
  <<"r","e","g","i","s","t","r","y","-","1",".","d","o","c","k","e","r",".","i","o">>

\* str.rstrip(ch)
RECURSIVE rstrip(_, _)
rstrip(s, ch) ==
  IF s # <<>> /\ s[Len(s)] = ch THEN rstrip(SubSeq(s, 1, Len(s) - 1), ch) ELSE s

\* registry_variants of extract_auth_from_config
registry_variants(registry) ==
  <<registry, rstrip(registry, "/"), registry \o <<"/">>,
    HubUrl, HubHost, DockerIo, HubRegistry>>

\* base64.b64decode(auth).decode() then decoded.split(":", 1), unpacked into two names:
\* `auth` tells whether it decodes and to which text; without a ':' the unpacking raises
Decoded(auth) ==
  IF ~auth.decodes \/ ~\E i \in 1..Len(auth.text) : auth.text[i] = ":"
    THEN [raise |-> TRUE, username |-> <<>>, password |-> <<>>]
    ELSE LET i == CHOOSE i \in 1..Len(auth.text) :
                    auth.text[i] = ":" /\ \A j \in 1..(i - 1) : auth.text[j] # ":"
         IN  [raise |-> FALSE,
              username |-> SubSeq(auth.text, 1, i - 1),
              password |-> SubSeq(auth.text, i + 1, Len(auth.text))]

\* The dict extract_auth_from_config returns
AuthConfig(username, password, registry) ==
  [username |-> username, password |-> password, serveraddress |-> registry]

\* The body of the loop for one entry of auths: the dict returned, or None to go on
FromEntry(auth_data, registry) ==
  IF "auth" \in DOMAIN auth_data /\ ~Decoded(auth_data.auth).raise
    THEN AuthConfig(Decoded(auth_data.auth).username, Decoded(auth_data.auth).password,
                    registry)
  ELSE IF "username" \in DOMAIN auth_data /\ "password" \in DOMAIN auth_data
    THEN AuthConfig(auth_data.username, auth_data.password, registry)
  ELSE [none |-> TRUE]

\* extract_auth_from_config(config, registry): auths is config.get("auths", {}), a
\* function from registry names to entries
extract_auth_from_config(auths, registry) ==
  LET variants == registry_variants(registry)
      hits == {i \in 1..Len(variants) :
                 /\ variants[i] \in DOMAIN auths
                 /\ FromEntry(auths[variants[i]], registry) # [none |-> TRUE]}
  IN  IF hits = {} THEN [none |-> TRUE]
      ELSE FromEntry(auths[variants[CHOOSE i \in hits : \A j \in hits : i <= j]], registry)

\* The registries asked for, and the keys a Docker config may hold
Registries == {GhcrIo, GhcrIo \o <<"/">>, DockerIo}
RegistryKeys == {GhcrIo, GhcrIo \o <<"/">>, DockerIo, HubUrl}

\* The user whose credentials are stored under a key
UserOf(key) ==
  CASE key = GhcrIo -> <<"g">>
    [] key = GhcrIo \o <<"/">> -> <<"s">>
    [] key = DockerIo -> <<"d">>
    [] key = HubUrl -> <<"h">>

\* The entries a key may be bound to: an auth that decodes to user:password, one that
\* does not decode, one without ':', a username and a password, or neither
AuthDatas(key) ==
  {[auth |-> [decodes |-> TRUE, text |-> UserOf(key) \o <<":", "p", ":", "q">>]],
   [auth |-> [decodes |-> FALSE, text |-> <<>>]],
   [auth |-> [decodes |-> TRUE, text |-> <<"n", "o">>],
    username |-> UserOf(key), password |-> <<"p">>],
   [username |-> UserOf(key), password |-> <<"p">>],
   [email |-> <<"e">>]}

\* The `auths` sections of at most MaxAuths entries
AuthsSections ==
  UNION {[keys -> UNION {AuthDatas(k) : k \in keys}] :
           keys \in {K \in SUBSET RegistryKeys : Cardinality(K) <= MaxAuths}}

\* extract_auth_from_config is called
ExtractAuthFromConfig ==
  /\ fcall.fn = ""
  /\ \E registry \in Registries, auths \in AuthsSections :
       /\ \A k \in DOMAIN auths : auths[k] \in AuthDatas(k)
       /\ fcall' = [fn |-> "extract_auth_from_config",
                    arg |-> [auths |-> auths, registry |-> registry],
                    result |-> extract_auth_from_config(auths, registry)]
  /\ UNCHANGED proberVars
  /\ UNCHANGED validateVars
  /\ UNCHANGED toolVars
  /\ UNCHANGED historyVars
  /\ UNCHANGED serverVars

\* ------------------------------------------------------------------ calls of validate_token_permissions

\* Operation names, permission texts and restriction texts the check is called with
Operations == {Text.delete_droplet, Text.Delete_Droplet, Text.droplets_read, Text.list}
PermissionTexts == {Text.perm_droplets_read, Text.Delete_Droplet}
RestrictionTexts == {Text.restr_delete_droplet, Text.restr_Delete_Droplet, Text.restr_list_denied}

\* Lists of at most n texts
ListsUpTo(S, n) == UNION {[1..k -> S] : k \in 0..n}

\* The dicts a service may be bound to: serialized records, and dicts that lack keys
ConstraintDicts ==
  {[to_dict(TokenConstraints) EXCEPT !.read_only = ro, !.permissions = p, !.restrictions = r] :
     ro \in BOOLEAN,
     p \in ListsUpTo(PermissionTexts, MaxList),
     r \in ListsUpTo(RestrictionTexts, MaxList)}
    \cup {[scopes |-> <<>>], [read_only |-> TRUE]}

\* A record that denies whatever it is asked
HostileDict ==
  [to_dict(TokenConstraints) EXCEPT
     !.read_only = TRUE,
     !.permissions = <<Text.perm_droplets_read>>,
     !.restrictions = <<Text.restr_delete_droplet, Text.restr_list_denied>>]

ServiceNames == {ServiceKey.docker, ServiceKey.digitalocean, ServiceKey.cloudflare}

\* The constraint mappings: `own` for the service asked about when it is `present`,
\* a hostile record for each other service of `hostile`
Mapping(service, present, own, hostile) ==
  [n \in (IF present THEN {service} ELSE {}) \cup (hostile \ {service}) |->
     IF n = service THEN own ELSE HostileDict]

NoCall ==
  [service |-> <<>>, operation |-> <<>>, constraints |-> Mapping(<<>>, FALSE, HostileDict, {})]

\* One call of validate_token_permissions, on arguments drawn from the sets above
ValidateCall ==
  /\ vcall = NoCall
  /\ \E service \in ServiceNames, operation \in Operations, present \in BOOLEAN :
     \E own \in (IF present THEN ConstraintDicts ELSE {HostileDict}),
        hostile \in SUBSET (ServiceNames \ {service}) :
       LET cs == Mapping(service, present, own, hostile)
       IN  /\ vcall' = [service |-> service, operation |-> operation, constraints |-> cs]
           /\ verdict' = validate_token_permissions(service, operation, cs)
  /\ UNCHANGED proberVars
  /\ UNCHANGED toolVars
  /\ UNCHANGED historyVars
  /\ UNCHANGED pureVars
  /\ UNCHANGED serverVars

\* ------------------------------------------------------------------ the check applied to probed records

\* The mutating operations of the DigitalOcean and Docker tools
MutatingOperations ==
  [digitalocean |->
     {<<"c", "r", "e", "a", "t", "e", "_", "d", "r", "o", "p", "l", "e", "t">>,
      <<"d", "e", "l", "e", "t", "e", "_", "d", "r", "o", "p", "l", "e", "t">>},
   docker |->
     {<<"s", "t", "a", "r", "t", "_", "c", "o", "n", "t", "a", "i", "n", "e", "r">>,
      <<"s", "t", "o", "p", "_", "c", "o", "n", "t", "a", "i", "n", "e", "r">>,
      <<"r", "e", "m", "o", "v", "e", "_", "c", "o", "n", "t", "a", "i", "n", "e", "r">>},
   cloudflare |-> {}]

\* The constraints dict built from the mapping get_all_token_constraints returned:
\* every record serialized with to_dict
SerializedConstraints ==
  [n \in {ServiceKey[constraints[i].key] : i \in 1..Len(constraints)} |->
     to_dict((CHOOSE e \in {constraints[i] : i \in 1..Len(constraints)} :
                ServiceKey[e.key] = n).value)]

\* validate_token_permissions is called for a mutating operation of a probed backend,
\* with the serialized records of the pass that returned
ValidateProbed ==
  /\ aggPc = "returned"
  /\ vcall = NoCall
  /\ \E i \in 1..Len(constraints) :
     \E operation \in MutatingOperations[constraints[i].key] :
       /\ vcall' = [service |-> ServiceKey[constraints[i].key], operation |-> operation,
                    constraints |-> SerializedConstraints]
       /\ verdict' = validate_token_permissions(ServiceKey[constraints[i].key], operation,
                                                SerializedConstraints)
  /\ UNCHANGED proberVars
  /\ UNCHANGED toolVars
  /\ UNCHANGED historyVars
  /\ UNCHANGED pureVars
  /\ UNCHANGED serverVars

\* ------------------------------------------------------------------ specifications

InitProber ==
  /\ aggPc = "call"
  /\ tasks = <<>>
  /\ probePc = [s \in Services |-> "idle"]
  /\ local = [s \in Services |-> TokenConstraints]
  /\ results = [s \in Services |-> Pending]
  /\ constraints = <<>>
  /\ calls = {}
  /\ finished = <<>>

InitHandles ==
  /\ clients \in SUBSET Services
  /\ \E d \in (IF "docker" \in clients THEN DockerBehaviours ELSE {Unprobed("docker")}),
        o \in (IF "digitalocean" \in clients
                 THEN DigitalOceanBehaviours ELSE {Unprobed("digitalocean")}),
        f \in (IF "cloudflare" \in clients
                 THEN CloudflareBehaviours ELSE {Unprobed("cloudflare")}) :
       behaviour = [s \in Services |->
                      CASE s = "docker" -> d
                        [] s = "digitalocean" -> o
                        [] s = "cloudflare" -> f]
  /\ errText \in ErrTexts

InitValidate ==
  /\ vcall = NoCall
  /\ verdict = Allowed
  /\ toolRuns = <<>>
  /\ previous = NoPrevious
  /\ fcall = NoFcall
  /\ cached = [s \in Services |-> NoClient]
  /\ constructs = [s \in Services |-> 0]
  /\ got = NoGot
  /\ resource = Idle

\* The settings hold no credentials
InitUnconfigured == configured = [s \in Services |-> FALSE]

\* The prober: list.append does not raise
Init ==
  /\ InitHandles
  /\ appendFails = FALSE
  /\ InitProber
  /\ InitValidate
  /\ InitUnconfigured

Probe ==
  \/ \E s \in Services : Crash(s)
  \/ DockerProbe
  \/ DOAccountStep
  \/ DODropletsStep
  \/ DODomainsStep
  \/ CFVerifyStep
  \/ CFZonesStep
  \/ CFAccountsStep

Next ==
  \/ Launch
  \/ Probe
  \/ Collect

Spec == Init /\ [][Next]_vars

\* The prober when the list.append of the write checks' try bodies may raise MemoryError
InitAppendFails ==
  /\ InitHandles
  /\ appendFails \in BOOLEAN
  /\ InitProber
  /\ InitValidate
  /\ InitUnconfigured

SpecAppendFails == InitAppendFails /\ [][Next]_vars

\* The prober when a probe may be cancelled while it awaits
NextCancel ==
  \/ Next
  \/ \E s \in Services : Cancel(s)

SpecCancel == Init /\ [][NextCancel]_vars

\* validate_token_permissions on its own
InitCheck ==
  /\ clients = {}
  /\ behaviour = [s \in Services |-> Unprobed(s)]
  /\ errText = Text.down
  /\ appendFails = FALSE
  /\ InitProber
  /\ InitValidate
  /\ InitUnconfigured

NextValidate == ValidateCall

SpecValidate == InitCheck /\ [][NextValidate]_vars

\* The prober called twice in succession
NextTwice ==
  \/ Next
  \/ CallAgain

SpecTwice == Init /\ [][NextTwice]_vars

\* The mutating tools on their own
NextTools ==
  \/ DoDeleteDroplet
  \/ CfDeleteZone
  \/ DockerRemoveContainer
  \/ DockerStopContainer
  \/ DockerStartContainer
  \/ DockerListContainers
  \/ DockerRunContainer
  \/ DoCreateDroplet
  \/ CfCreateDnsRecord
  \/ CfUpdateDnsRecord

SpecTools == InitCheck /\ [][NextTools]_vars


\* The name validators on their own
NextNames ==
  \/ ValidateContainerName
  \/ ValidateImageName

SpecNames == InitCheck /\ [][NextNames]_vars

\* The client getters on their own, for every configuration
InitClients ==
  /\ clients = {}
  /\ behaviour = [s \in Services |-> Unprobed(s)]
  /\ errText = Text.down
  /\ appendFails = FALSE
  /\ InitProber
  /\ InitValidate
  /\ configured \in [Services -> BOOLEAN]

NextClients == \E s \in Services : GetClient(s)

SpecClients == InitClients /\ [][NextClients]_vars

\* The handles the resource is checked with: every call answers, every call raises, or
\* the probe raises outside its own try
ResourceBehaviours(s) ==
  {b \in Behaviours(s) :
     \/ b.crash
     \/ \A call \in DOMAIN b \ {"crash"} : b[call].raise
     \/ \A call \in DOMAIN b \ {"crash"} : ~b[call].raise}

\* The prober, then the permission check on the records it returned
NextProbed ==
  \/ Next
  \/ ValidateProbed

\* (the CloudFlare handle, which the check is not asked about, is one of those the
\* resource is checked with)
InitProbed ==
  /\ Init
  /\ behaviour["cloudflare"] \in ResourceBehaviours("cloudflare")

SpecProbed == InitProbed /\ [][NextProbed]_vars

\* The resource get_token_permissions, for every configuration: the prober is idle until
\* the resource calls it
InitResource ==
  /\ clients = {}
  /\ configured \in [Services -> BOOLEAN]
  /\ behaviour \in [Services -> UNION {ResourceBehaviours(s) : s \in Services}]
  /\ \A s \in Services :
       behaviour[s] \in (IF has_config(s) THEN ResourceBehaviours(s) ELSE {Unprobed(s)})
  /\ errText \in ErrTexts
  /\ appendFails = FALSE
  /\ aggPc = "idle"
  /\ tasks = <<>>
  /\ probePc = [s \in Services |-> "idle"]
  /\ local = [s \in Services |-> TokenConstraints]
  /\ results = [s \in Services |-> Pending]
  /\ constraints = <<>>
  /\ calls = {}
  /\ finished = <<>>
  /\ InitValidate

NextResource ==
  \/ ResourceStart
  \/ NextCancel
  \/ ResourceFinish

SpecResource == InitResource /\ [][NextResource]_vars

\* extract_auth_from_config on its own
NextAuth == ExtractAuthFromConfig

SpecAuth == InitCheck /\ [][NextAuth]_vars


\* ------------------------------------------------------------------ properties of the prober

\* The keys of the mapping get_all_token_constraints returns
Keys == {constraints[i].key : i \in 1..Len(constraints)}

\* The record the probe of s returns when it runs against the behaviour of its backend
Detect(s) ==
  CASE s = "docker" -> detect_docker_constraints(behaviour[s], errText, appendFails)
    [] s = "digitalocean" ->
         detect_digitalocean_constraints(behaviour[s], errText, appendFails)
    [] s = "cloudflare" -> detect_cloudflare_constraints(behaviour[s], errText)

\* The probes that raised outside their own try
Crashed == {s \in clients : behaviour[s].crash}

\* C1: for every subset of handles passed to get_all_token_constraints, the empty one
\* included, the returned mapping has one key per present handle and no other key.
C1_KeysArePresentHandles ==
  aggPc = "returned" =>
    /\ Keys = clients
    /\ Len(constraints) = Cardinality(clients)

\* A run that returned with two of the three handles passed
C1_Witness ==
  /\ aggPc = "returned"
  /\ clients = {"docker", "cloudflare"}
  /\ Keys = {"docker", "cloudflare"}

\* C2: with three backends supplied and exactly one probe raising an exception that
\* escapes it, the result has three entries; the failing backend's record has the single
\* restriction 'detection_failed: <message>' and no permission; the other two records are
\* the ones their probes return.
C2_FailureIsolation ==
  (aggPc = "returned" /\ clients = Services /\ Cardinality(Crashed) = 1) =>
    /\ Len(constraints) = 3
    /\ Keys = Services
    /\ \A i \in 1..Len(constraints) :
         IF constraints[i].key \in Crashed
           THEN /\ constraints[i].value.restrictions = <<Tag.detection_failed \o errText>>
                /\ constraints[i].value.permissions = <<>>
           ELSE constraints[i].value = Detect(constraints[i].key)

\* A run of three probes in which the DigitalOcean probe alone raised, and the Docker
\* record carries permissions
C2_Witness ==
  /\ aggPc = "returned"
  /\ clients = Services
  /\ Crashed = {"digitalocean"}
  /\ Len(constraints) = 3
  /\ constraints[1].value.permissions # <<>>
  /\ constraints[2].value.restrictions = <<Tag.detection_failed \o errText>>

\* Whether every call a probe issues on the backend of s raises
AllCallsRaise(s) ==
  CASE s = "docker" ->
         /\ behaviour[s].ping.raise
         /\ behaviour[s].containers.raise
         /\ behaviour[s].images.raise
    [] s = "digitalocean" ->
         /\ behaviour[s].account.raise
         /\ behaviour[s].droplets.raise
         /\ behaviour[s].domains.raise
    [] s = "cloudflare" ->
         /\ behaviour[s].verify.raise
         /\ behaviour[s].zones.raise
         /\ behaviour[s].accounts.raise

\* Whether the probe of s has returned or raised, and did not raise outside its try
Probed(s) == s \in clients /\ probePc[s] = "done" /\ ~behaviour[s].crash

\* C3: a probe run against a handle on which every call raises returns a record with no
\* permission and with at least one restriction.
C3_AllRaiseGivesNoPermission ==
  \A s \in Services :
    (Probed(s) /\ AllCallsRaise(s)) =>
      /\ results[s].kind = "record"
      /\ results[s].value.permissions = <<>>
      /\ results[s].value.restrictions # <<>>

\* The calls of a probe that raised, each with the tag its check records
FailedCalls(s) ==
  CASE s = "docker" ->
         IF behaviour[s].from_env.raise THEN {Tag.docker_unavailable}
         ELSE {Tag.docker_ping_failed : x \in {n \in {1} : behaviour[s].ping.raise}}
              \cup {Tag.docker_containers_read_denied : x \in {n \in {1} : behaviour[s].containers.raise}}
              \cup {Tag.docker_images_read_denied : x \in {n \in {1} : behaviour[s].images.raise}}
    [] s = "digitalocean" ->
         {Tag.account_read_denied : x \in {n \in {1} : behaviour[s].account.raise}}
           \cup {Tag.droplets_read_denied : x \in {n \in {1} : behaviour[s].droplets.raise}}
           \cup {Tag.domains_read_denied : x \in {n \in {1} : behaviour[s].domains.raise}}
    [] s = "cloudflare" ->
         {Tag.token_verification_failed : x \in {n \in {1} : behaviour[s].verify.raise}}
           \cup {Tag.zones_read_denied : x \in {n \in {1} : behaviour[s].zones.raise}}
           \cup {Tag.accounts_read_denied : x \in {n \in {1} : behaviour[s].accounts.raise}}

\* The calls a probe issues when no failure stops it
ExpectedCalls(s) ==
  CASE s = "docker" ->
         IF behaviour[s].from_env.raise THEN {<<s, "from_env">>}
         ELSE {<<s, "from_env">>, <<s, "ping">>, <<s, "containers.list(limit=1)">>, <<s, "images.list(limit=1)">>}
    [] s = "digitalocean" ->
         {<<s, "account.get">>, <<s, "droplets.list(per_page=1)">>, <<s, "domains.list(per_page=1)">>}
    [] s = "cloudflare" ->
         {<<s, "user.tokens.verify">>, <<s, "zones.list(per_page=1)">>, <<s, "accounts.list(per_page=1)">>}

\* C4: whatever calls of a handle raise, the probe returns a record and does not raise;
\* every call that raised has left its entry in restrictions, so there are at least as
\* many restrictions as failed calls; and the later calls of the probe are still issued.
C4_FailuresBecomeRestrictions ==
  \A s \in Services :
    Probed(s) =>
      /\ results[s].kind = "record"
      /\ \A tag \in FailedCalls(s) :
           \E i \in 1..Len(results[s].value.restrictions) :
             startswith(results[s].value.restrictions[i], tag)
      /\ Len(results[s].value.restrictions) >= Cardinality(FailedCalls(s))
      /\ {c \in calls : c[1] = s} = ExpectedCalls(s)

\* A DigitalOcean probe whose first two calls raised and whose last call succeeded
C4_Witness ==
  /\ Probed("digitalocean")
  /\ behaviour["digitalocean"].account.raise
  /\ behaviour["digitalocean"].droplets.raise
  /\ ~behaviour["digitalocean"].domains.raise
  /\ Len(results["digitalocean"].value.restrictions) = 2
  /\ \E i \in 1..Len(results["digitalocean"].value.permissions) :
       results["digitalocean"].value.permissions[i] = Tag.domains_read

\* Whether some restriction of record c contains the text 'read_only'
HasReadOnlyEntry(c) ==
  \E i \in 1..Len(c.restrictions) : contains(Text.read_only, c.restrictions[i])

\* C5: in every record a probe returns or the aggregator builds, read_only = true implies
\* a restrictions entry containing 'read_only', in every branch that sets read_only.
C5_ReadOnlyHasRestriction ==
  /\ \A s \in Services :
       (results[s].kind = "record" /\ results[s].value.read_only) =>
         HasReadOnlyEntry(results[s].value)
  /\ \A i \in 1..Len(constraints) :
       constraints[i].value.read_only => HasReadOnlyEntry(constraints[i].value)

\* ------------------------------------------------------------------ properties of validate_token_permissions

Called == vcall.service # <<>>

\* Whether the service asked about is a key of the constraints
Asked == Called /\ vcall.service \in DOMAIN vcall.constraints

\* The dict of the service asked about, read as the function reads it
OwnReadOnly == get(vcall.constraints[vcall.service], "read_only", FALSE)
OwnRestrictions == get(vcall.constraints[vcall.service], "restrictions", <<>>)
OwnPermissions == get(vcall.constraints[vcall.service], "permissions", <<>>)

\* C6: 'delete_droplet' is denied whenever the record has read_only = true, whatever its
\* permissions and restrictions; every operation is allowed when the record has
\* read_only = false, no permission and no restriction.
C6_ReadOnlyDeniesDeleteEmptyAllows ==
  /\ (Asked /\ vcall.operation = Text.delete_droplet /\ OwnReadOnly) => verdict.raised
  /\ (Asked /\ ~OwnReadOnly /\ OwnPermissions = <<>> /\ OwnRestrictions = <<>>) =>
       verdict = Allowed

\* 'delete_droplet' denied on a read-only record whose permissions name the operation
C6_Witness ==
  /\ Asked
  /\ vcall.operation = Text.delete_droplet
  /\ OwnReadOnly
  /\ OwnPermissions = <<Text.Delete_Droplet>>
  /\ OwnRestrictions = <<>>
  /\ verdict.raised

\* C7: when the service is no key of the constraints, every operation is allowed,
\* whatever the records of the other services hold.
C7_AbsentServiceAllowed ==
  (Called /\ ~Asked) => verdict = Allowed

\* A write operation allowed for an absent service while both other services are bound
\* to read-only records with matching restrictions
C7_Witness ==
  /\ Called
  /\ ~Asked
  /\ Cardinality(DOMAIN vcall.constraints) = 2
  /\ vcall.operation = Text.delete_droplet
  /\ verdict = Allowed

\* Whether the lower-cased operation contains one of the seven write verbs
HasWriteVerb(operation) ==
  \E verb \in {Verb.create, Verb.delete, Verb.update, Verb.modify, Verb.start, Verb.stop, Verb.restart} :
    contains(verb, lower(operation))

\* Whether step 2 of the policy applies to the call
ReadOnlyStep == Asked /\ OwnReadOnly /\ HasWriteVerb(vcall.operation)

\* Whether some restriction contains the lower-cased operation
RestrictionStep ==
  /\ Asked
  /\ \E i \in 1..Len(OwnRestrictions) :
       contains(lower(vcall.operation), lower(OwnRestrictions[i]))

\* Whether permissions are given and none contains the lower-cased operation or the
\* lower-cased operation with every '_' replaced by '.'
PermissionStep ==
  /\ Asked
  /\ OwnPermissions # <<>>
  /\ \A i \in 1..Len(OwnPermissions) :
       /\ ~contains(lower(vcall.operation), lower(OwnPermissions[i]))
       /\ ~contains(replace(lower(vcall.operation), "_", "."), lower(OwnPermissions[i]))

\* C8: first match wins: with read_only = true and a write verb in the operation (in any
\* letter case) the check denies with the read-only reason, also when a restriction
\* matches or the permissions are insufficient; the two later denials are produced only
\* when the read-only step did not fire.
C8_ReadOnlyStepFirst ==
  /\ ReadOnlyStep =>
       verdict = CargoShipperError(
                   Msg.read_only_head \o vcall.operation \o Msg.on \o vcall.service
                     \o Msg.read_only_tail)
  /\ (verdict.raised /\ (\/ startswith(verdict.message, Msg.denied_head)
                         \/ startswith(verdict.message, Msg.insufficient_head))) =>
       ~ReadOnlyStep

\* A mixed-case write operation on a read-only record whose restrictions match and whose
\* permissions are insufficient, denied for read-only
C8_Witness ==
  /\ ReadOnlyStep
  /\ vcall.operation = Text.Delete_Droplet
  /\ RestrictionStep
  /\ PermissionStep
  /\ startswith(verdict.message, Msg.read_only_head)

\* C9: when the read-only step does not apply and some restriction contains the operation
\* (case-insensitively), the check denies citing verbatim the first such restriction in
\* list order, also when a permission contains the operation.
C9_FirstRestrictionCited ==
  (RestrictionStep /\ ~ReadOnlyStep) =>
    \E i \in 1..Len(OwnRestrictions) :
      /\ contains(lower(vcall.operation), lower(OwnRestrictions[i]))
      /\ \A j \in 1..(i - 1) :
           ~contains(lower(vcall.operation), lower(OwnRestrictions[j]))
      /\ verdict = CargoShipperError(
                     Msg.denied_head \o vcall.operation \o Msg.on \o vcall.service
                       \o Msg.restriction \o OwnRestrictions[i])

\* Two different matching restrictions and a matching permission: the first is cited
C9_Witness ==
  /\ Asked
  /\ ~OwnReadOnly
  /\ vcall.operation = Text.delete_droplet
  /\ OwnRestrictions = <<Text.restr_Delete_Droplet, Text.restr_delete_droplet>>
  /\ OwnPermissions = <<Text.Delete_Droplet>>
  /\ verdict.raised
  /\ verdict.message =
       Msg.denied_head \o Text.delete_droplet \o Msg.on \o vcall.service
         \o Msg.restriction \o Text.restr_Delete_Droplet

\* C10: for a service that is a key, the check allows exactly when none of the read-only,
\* restriction and permission steps applies; when only the permission step applies it
\* denies citing insufficient permissions; with empty permissions it never does.
C10_AllowExactlyWhenNoStepApplies ==
  Asked =>
    /\ verdict = Allowed <=> (~ReadOnlyStep /\ ~RestrictionStep /\ ~PermissionStep)
    /\ verdict.raised <=> verdict # Allowed
    /\ (~ReadOnlyStep /\ ~RestrictionStep /\ PermissionStep) =>
         verdict = CargoShipperError(
                     Msg.insufficient_head \o vcall.operation \o Msg.on \o vcall.service
                       \o Msg.available \o join(Msg.comma, OwnPermissions))
    /\ OwnPermissions = <<>> => ~startswith(verdict.message, Msg.insufficient_head)

\* An operation allowed through its dotted form: 'droplets_read' against 'droplets.read'
C10_Witness ==
  /\ Asked
  /\ vcall.operation = Text.droplets_read
  /\ OwnPermissions = <<Text.perm_droplets_read>>
  /\ ~contains(lower(Text.droplets_read), lower(Text.perm_droplets_read))
  /\ OwnRestrictions = <<>>
  /\ verdict = Allowed

\* ------------------------------------------------------------------ properties of the tools

\* The calls of a tool that change a backend
MutatingCalls ==
  {"droplets.destroy", "zones.delete", "container.remove", "container.stop",
   "container.start",
   "containers.run", "droplets.create", "dns.records.create", "dns.records.update"}

\* C11: in every tool run, a mutating backend call is preceded by a call of
\* validate_token_permissions in the same run.
C11_CheckBeforeMutatingCall ==
  \A n \in 1..Len(toolRuns) :
    \A i \in 1..Len(toolRuns[n].events) :
      toolRuns[n].events[i] \in MutatingCalls =>
        \E j \in 1..(i - 1) : toolRuns[n].events[j] = "validate_token_permissions"

\* ------------------------------------------------------------------ properties of the fan-out

\* The probes get_all_token_constraints has launched
Launched == {s \in Services : probePc[s] # "idle"}

\* C12: once get_all_token_constraints waits, the probe of every present backend has
\* been launched and no other; once it has returned, every launched probe has ended,
\* with a record or with an exception.
C12_AllLaunchedAllAwaited ==
  /\ aggPc = "call" => Launched = {}
  /\ aggPc # "call" => Launched = clients
  /\ aggPc = "returned" =>
       \A s \in Launched :
         /\ probePc[s] = "done"
         /\ results[s].kind \in {"record", "Exception"}

\* A run that returned after three probes, one of which raised
C12_Witness ==
  /\ aggPc = "returned"
  /\ Launched = Services
  /\ results["cloudflare"].kind = "Exception"
  /\ results["docker"].kind = "record"
  /\ results["digitalocean"].kind = "record"

\* The keys of the returned mapping, in insertion order
KeyOrder == [i \in 1..Len(constraints) |-> constraints[i].key]

\* The record get_all_token_constraints binds to s when the probe of s returns or raises
Expected(s) ==
  IF behaviour[s].crash THEN ErrorConstraint(Exception(errText)) ELSE Detect(s)

\* C13: the keys of the returned mapping come in the order docker, digitalocean,
\* cloudflare, less the absent handles, and each key is bound to the record of its own
\* backend, in whatever order the probes ended.
C13_KeysInPresenceOrder ==
  aggPc = "returned" =>
    /\ KeyOrder = SelectSeq(ServiceOrder, LAMBDA s : s \in clients)
    /\ \A i \in 1..Len(constraints) :
         constraints[i].value = Expected(constraints[i].key)

\* A run in which the CloudFlare probe ended before the DigitalOcean probe, each probe
\* with a record of its own
C13_Witness ==
  /\ aggPc = "returned"
  /\ finished = <<"docker", "cloudflare", "digitalocean">>
  /\ KeyOrder = <<"docker", "digitalocean", "cloudflare">>
  /\ constraints[1].value.permissions # constraints[2].value.permissions
  /\ constraints[2].value.permissions # constraints[3].value.permissions
  /\ constraints[1].value.permissions # constraints[3].value.permissions

\* Whether a value of the returned mapping has the fields of a TokenConstraints
IsTokenConstraints(v) == DOMAIN v = DOMAIN TokenConstraints

\* C14: whether the probes return, raise or are cancelled, every value of the mapping
\* get_all_token_constraints returns is a TokenConstraints.
C14_EveryValueIsARecord ==
  aggPc = "returned" =>
    \A i \in 1..Len(constraints) : IsTokenConstraints(constraints[i].value)

\* ------------------------------------------------------------------ properties of the records

\* Whether the first check of the probe of s, its connectivity check, raises
ConnectivityRaises(s) ==
  CASE s = "docker" -> ~behaviour[s].from_env.raise /\ behaviour[s].ping.raise
    [] s = "digitalocean" -> behaviour[s].account.raise
    [] s = "cloudflare" -> behaviour[s].verify.raise

\* Whether the first list call of the probe of s returns
ListReadSucceeds(s) ==
  CASE s = "docker" -> ~behaviour[s].containers.raise
    [] s = "digitalocean" -> ~behaviour[s].droplets.raise
    [] s = "cloudflare" -> ~behaviour[s].zones.raise

\* The permission tags of the list calls of the probe of s
ReadTags(s) ==
  CASE s = "docker" -> {Tag.docker_containers_read, Tag.docker_images_read}
    [] s = "digitalocean" -> {Tag.droplets_read, Tag.domains_read}
    [] s = "cloudflare" -> {Tag.zones_read, Tag.accounts_read}

\* '.unavailable'
UnavailableMark == <<".","u","n","a","v","a","i","l","a","b","l","e">>

\* C15: a probe whose connectivity check raises and whose list call returns gives a
\* record with exactly one restriction, which carries an '.unavailable' tag, and exactly
\* one permission, the read tag of a list call.
C15_ConnectivityFailsReadSucceeds ==
  \A s \in Services :
    (Probed(s) /\ ConnectivityRaises(s) /\ ListReadSucceeds(s)) =>
      /\ results[s].kind = "record"
      /\ Len(results[s].value.restrictions) = 1
      /\ contains(UnavailableMark, results[s].value.restrictions[1])
      /\ Len(results[s].value.permissions) = 1
      /\ results[s].value.permissions[1] \in ReadTags(s)

\* C16: a second call of get_all_token_constraints on the same handles, whose calls
\* answer as before, returns for every backend the permissions and the restrictions of
\* the first call, in the same order.
C16_SecondPassSameRecords ==
  (aggPc = "returned" /\ previous.done) =>
    /\ Len(constraints) = Len(previous.value)
    /\ \A i \in 1..Len(constraints) :
         /\ constraints[i].key = previous.value[i].key
         /\ constraints[i].value.permissions = previous.value[i].value.permissions
         /\ constraints[i].value.restrictions = previous.value[i].value.restrictions

\* A second call that returned three records, the DigitalOcean one with both
\* permissions and restrictions
C16_Witness ==
  /\ aggPc = "returned"
  /\ previous.done
  /\ Len(constraints) = 3
  /\ Len(previous.value) = 3
  /\ Len(constraints[2].value.permissions) = 3
  /\ Len(constraints[2].value.restrictions) = 1
  /\ constraints[3].value.restrictions # <<>>

\* The calls that change nothing on a backend: ping, get, verify, and lists of one item
NonDestructiveCalls ==
  {"ping", "containers.list(limit=1)", "images.list(limit=1)",
   "account.get", "droplets.list(per_page=1)", "domains.list(per_page=1)",
   "user.tokens.verify", "zones.list(per_page=1)", "accounts.list(per_page=1)"}

\* The calls the probes have issued on a backend; docker.from_env() builds a client and
\* calls none
BackendCalls == {c \in calls : c[2] # "from_env"}

DeniedMark == <<"_","d","e","n","i","e","d",":"," ">>
UnavailableColonMark == UnavailableMark \o <<":"," ">>

\* Whether r reads '<capability>_denied: <text>' or '<capability>.unavailable: <text>'
HasRestrictionForm(r) ==
  \/ \E k \in 2..(Len(r) - Len(DeniedMark) + 1) :
       SubSeq(r, k, k + Len(DeniedMark) - 1) = DeniedMark
  \/ \E k \in 2..(Len(r) - Len(UnavailableColonMark) + 1) :
       SubSeq(r, k, k + Len(UnavailableColonMark) - 1) = UnavailableColonMark

\* C18: every restriction of a record a probe returns reads '<capability>_denied: <text>'
\* or '<capability>.unavailable: <text>'.
C18_RestrictionForms ==
  \A s \in Services :
    (Probed(s) /\ results[s].kind = "record") =>
      \A i \in 1..Len(results[s].value.restrictions) :
        HasRestrictionForm(results[s].value.restrictions[i])

\* C19: the prober builds no client of its own: it never calls docker.from_env(), so
\* that every call of a probe goes to the handle get_all_token_constraints was given.
C19_NeverConstructsClient ==
  \A c \in calls : c[2] # "from_env"

\* The backends whose probe returned a record
Returned == {s \in Services : results[s].kind = "record"}

\* C20: once get_all_token_constraints has returned, the record bound to a backend
\* whose probe returned is, field for field, the record the probe returned and built,
\* and no two keys of the mapping are bound to one probe's record.
C20_CollectedRecordsUnchanged ==
  aggPc = "returned" =>
    /\ \A i \in 1..Len(constraints) :
         constraints[i].key \in Returned =>
           /\ constraints[i].value = results[constraints[i].key].value
           /\ constraints[i].value = local[constraints[i].key]
    /\ \A i, j \in 1..Len(constraints) : constraints[i].key = constraints[j].key => i = j

\* A pass that returned three records the probes built, with permissions, restrictions,
\* resources and rate limits in them
C20_Witness ==
  /\ aggPc = "returned"
  /\ Returned = Services
  /\ Len(constraints) = 3
  /\ constraints[2].value.restrictions # <<>>
  /\ constraints[3].value.allowed_resources # <<>>
  /\ constraints[3].value.rate_limits # <<>>
  /\ constraints[3].value.expires_at # None

\* The calls of a tool that read from a backend
ReadCalls == {"droplets.get", "zones.get", "containers.get", "containers.list", "dns.records.get"}

\* The SDK calls of a tool run, in order
SdkCalls(run) == SelectSeq(run.events, LAMBDA e : e \in MutatingCalls \cup ReadCalls)

LookupTools ==
  {"do_delete_droplet", "cf_delete_zone", "docker_remove_container",
   "docker_stop_container", "docker_start_container", "cf_update_dns_record"}

C22_AlwaysAnEnvelope ==
  \A n \in 1..Len(toolRuns) :
    LET response == toolRuns[n].response
    IN  /\ {"success", "operation", "timestamp"} \subseteq DOMAIN response
        /\ IF response.success
             THEN "data" \in DOMAIN response /\ "error" \notin DOMAIN response
             ELSE "error" \in DOMAIN response /\ "data" \notin DOMAIN response

\* A run that failed its validation and a run whose backend call raised, each with an
\* error envelope
C22_Witness ==
  /\ Len(toolRuns) = 2
  /\ toolRuns[1].tool = "docker_run_container"
  /\ toolRuns[1].raised = "ValidationError"
  /\ ~toolRuns[1].response.success
  /\ toolRuns[2].tool = "do_create_droplet"
  /\ toolRuns[2].raised = "Exception"
  /\ toolRuns[2].events[Len(toolRuns[2].events)] = "droplets.create"
  /\ ~toolRuns[2].response.success

\* The messages of the ValidationErrors the tools' validation raises
ValidationMessages ==
  {"Container name must be a non-empty string",
   "Container name must match pattern: [a-zA-Z0-9][a-zA-Z0-9_.-]*",
   "Image name must be a non-empty string",
   "Port must be between 1 and 65535",
   "DNS record type must be a non-empty string",
   "Invalid DNS record type. Must be one of: A, AAAA, CNAME, MX, TXT, SRV, NS, PTR",
   "Missing required fields",
   "TTL must be 1 (Auto) or between 120-7200 seconds",
   "Priority is required for MX records"}

\* C25: a tool run whose input validation raised ValidationError returns an error
\* envelope with the validation message and has issued no SDK call.
C25_ValidationBeforeBackendCall ==
  \A n \in 1..Len(toolRuns) :
    toolRuns[n].raised = "ValidationError" =>
      /\ ~toolRuns[n].response.success
      /\ toolRuns[n].response.error \in ValidationMessages
      /\ SdkCalls(toolRuns[n]) = <<>>

\* ------------------------------------------------------------------ C23

\* A non-empty string that starts with an ASCII letter or digit and continues with only
\* letters, digits, '_', '.' or '-'
WellFormedName(name) ==
  /\ name # None
  /\ Len(name) >= 1
  /\ IsAlnum(name[1])
  /\ \A i \in 2..Len(name) : IsAlnum(name[i]) \/ name[i] \in {"_", ".", "-"}

\* C23: validate_container_name returns True exactly for the well-formed names and
\* raises ValidationError for every other input; validate_image_name returns True for
\* every non-empty string and raises ValidationError for the empty one
C23_NamesValidatedExactly ==
  /\ fcall.fn = "validate_container_name" =>
       /\ fcall.result = NoError <=> WellFormedName(fcall.arg)
       /\ fcall.result # NoError => fcall.result.cls = "ValidationError"
  /\ fcall.fn = "validate_image_name" /\ fcall.arg # None =>
       /\ fcall.result = NoError <=> fcall.arg # <<>>
       /\ fcall.result # NoError => fcall.result.cls = "ValidationError"

\* ------------------------------------------------------------------ C24

\* C24: however the calls of the concurrently running probes interleave, the record a
\* probe returns, and the record bound to its backend in the mapping, is the record the
\* probe produces when it runs alone against the same handle behaviour.
C24_RecordAsWhenRunAlone ==
  /\ \A s \in Returned : results[s].value = Detect(s)
  /\ aggPc = "returned" =>
       \A i \in 1..Len(constraints) :
         constraints[i].key \in Returned => constraints[i].value = Detect(constraints[i].key)

\* The DigitalOcean probe has returned its record while the CloudFlare probe, launched
\* with it, still awaits its last call; both records carry restrictions of their own
C24_Witness ==
  /\ clients = Services
  /\ probePc["digitalocean"] = "done"
  /\ probePc["cloudflare"] = "accounts"
  /\ "digitalocean" \in Returned
  /\ results["digitalocean"].value = Detect("digitalocean")
  /\ results["digitalocean"].value.restrictions # <<>>
  /\ local["cloudflare"].restrictions # <<>>
  /\ local["cloudflare"] # local["digitalocean"]

\* ------------------------------------------------------------------ C26

\* Every call on the handle of s succeeds
Unrestricted(s) ==
  /\ ~behaviour[s].crash
  /\ \A call \in DOMAIN behaviour[s] \ {"crash"} : ~behaviour[s][call].raise

\* C26: for a backend on whose handle every probe call succeeds, validate_token_permissions
\* applied to the serialized probed records allows the mutating operations of that
\* backend: 'create_droplet' and 'delete_droplet' for DigitalOcean, 'start_container',
\* 'stop_container' and 'remove_container' for Docker.
C26_UnrestrictedAllowsMutations ==
  \A s \in {"docker", "digitalocean"} :
    (vcall.service = ServiceKey[s] /\ Unrestricted(s)) => verdict = Allowed

\* ------------------------------------------------------------------ C29

\* Every ConstraintRecord there is: those the probes returned and those of the mapping
ConstraintRecords ==
  {results[s].value : s \in Returned}
    \cup {constraints[i].value : i \in 1..Len(constraints)}

\* x is an item of the list
In(x, list) == \E i \in 1..Len(list) : list[i] = x

C27_CachedOnceConstructed ==
  /\ got # NoGot =>
       LET s == got.service
           r == got.result
       IN  /\ got.before # NoClient =>
                r.value = got.before /\ r.cache = got.before /\ ~r.invoked /\ ~r.error.raise
           /\ r.error.raise =>
                r.error.cls = "CargoShipperError" /\ r.cache = NoClient /\ r.value = NoClient
           /\ (got.before = NoClient /\ ~has_config(s)) => r.error.raise /\ ~r.invoked
           /\ (got.before = NoClient /\ has_config(s)) => r.invoked
           /\ ~r.error.raise => r.value = r.cache /\ r.value.made /\ r.value.service = s
  /\ \A s \in Services :
       /\ cached[s] # NoClient => cached[s] = NewClient(s, constructs[s])
       /\ ~has_config(s) => constructs[s] = 0

\* A getter whose first construction failed and whose second succeeded is called a third
\* time: it returns the cached client and the constructor has been invoked twice
C27_Witness ==
  /\ got.service = "digitalocean"
  /\ got.before = NewClient("digitalocean", 2)
  /\ got.result.value = got.before
  /\ ~got.result.invoked
  /\ constructs["digitalocean"] = 2
  /\ ~configured["cloudflare"]

\* ------------------------------------------------------------------ C30

\* Once get_token_permissions has called its getters: one of them raised (the getter of a
\* configured backend left its global unset)
GetterFailed == \E s \in Services : has_config(s) /\ cached[s] = NoClient

\* A value of the mapping is no ConstraintRecord: formatting it raises
DetectionFailed ==
  \E i \in 1..Len(constraints) : ~IsTokenConstraints(constraints[i].value)

\* The text begins 'Token permission detection failed'
BeginsWithPhrase(text) ==
  Len(text) >= 1 /\ text[1] = "Token permission detection failed: "

\* The text begins with the cross mark U+274C and a space, then 'Token permission
\* detection failed: '
BeginsWithMarkThenPhrase(text) ==
  Len(text) >= 2 /\ text[1] = "<U+274C> " /\ text[2] = "Token permission detection failed: "

\* get_token_permissions returns and does not raise; a getter that raised, or a failed
\* detection, gives the single failure message (recognized by IsFailureText) and no
\* section, and after a getter that raised no probe was launched; otherwise there is one
\* section per key of the mapping, in its order
ResourceContract(IsFailureText(_)) ==
  /\ (resource # Idle /\ GetterFailed) =>
       /\ resource.pc = "returned"
       /\ IsFailureText(resource.text)
       /\ resource.sections = <<>>
       /\ aggPc = "idle" /\ tasks = <<>> /\ calls = {}
       /\ \A s \in Services : probePc[s] = "idle"
  /\ (resource.pc = "returned" /\ ~GetterFailed) =>
       /\ aggPc = "returned"
       /\ IF DetectionFailed
            THEN IsFailureText(resource.text) /\ resource.sections = <<>>
            ELSE /\ ~IsFailureText(resource.text)
                 /\ Len(resource.sections) = Len(constraints)
                 /\ \A i \in 1..Len(constraints) :
                      /\ resource.sections[i].service = constraints[i].key
                      /\ resource.sections[i].of = constraints[i].value

\* C30 as stated: get_token_permissions never raises; when a client getter or the
\* detection fails it returns the single message beginning 'Token permission detection
\* failed' with no section, and no probe is launched after a getter failed; otherwise it
\* returns one section per key of the mapping, in the mapping's key order.
C30_FailureMessageOrSections == ResourceContract(BeginsWithPhrase)

\* C30, amended: as above, the single message beginning with the cross mark U+274C and a
\* space, followed by 'Token permission detection failed: ' and the text of the exception.
C30_MarkedFailureMessageOrSections == ResourceContract(BeginsWithMarkThenPhrase)

\* The Docker client was constructed, the constructor of the configured DigitalOcean
\* client raised: the resource has returned the failure message, no probe was launched
C30_Witness ==
  /\ resource.pc = "returned"
  /\ cached["docker"] # NoClient
  /\ configured["digitalocean"]
  /\ got.service = "digitalocean"
  /\ got.result.error.raise
  /\ got.result.invoked
  /\ BeginsWithMarkThenPhrase(resource.text)
  /\ resource.sections = <<>>
  /\ calls = {}

\* ------------------------------------------------------------------ C28

\* Two names of one registry: equal up to trailing '/'
SameRegistry(key, registry) == rstrip(key, "/") = rstrip(registry, "/")

\* C28: whenever extract_auth_from_config returns credentials for registry R, they were
\* read from an entry of auths whose key is R, with or without a trailing '/'; when auths
\* has no entry for R it returns None, not the credentials stored for another registry.
C28_CredentialsOfTheRegistryAsked ==
  fcall.fn = "extract_auth_from_config" =>
    LET auths == fcall.arg.auths
        registry == fcall.arg.registry
        own == {k \in DOMAIN auths : SameRegistry(k, registry)}
    IN  /\ own = {} => fcall.result = [none |-> TRUE]
        /\ fcall.result # [none |-> TRUE] =>
             \E k \in own : fcall.result = FromEntry(auths[k], registry)
====
